---- MODULE Spec2Model ----
(***************************************************************************)
(* Model of the collection tracker of src/script.js: the filter state, the *)
(* evolution-line display list, the variant-group projection, the          *)
(* encounter-probability engine and the route recommendation.              *)
(***************************************************************************)
EXTENDS Integers, Sequences, FiniteSets, TLC

\* ------------------------------------------------------------------ values
\* JavaScript undefined / NaN / null / Infinity for numeric slots.  Every
\* number the program stores in such a slot is >= 0.
undefined == -1
NaN == -2
Null == -3
Infinity == -4

\* a value that is falsy in a JavaScript condition ("" or undefined)
Falsy(x) == x = "" \/ x = "undefined"

variantOrder == <<"Normal", "Dark", "Mystic", "Metallic", "Shadow", "Shiny">>
rarityOrder == <<"Common", "Rare", "Legendary", "Ultra Beast">>

\* ------------------------------------------------------------ sequences
\* the array with the elements f[1], ..., f[n] of a function f on 1..n
Array(f) == <<>> \o f

RECURSIVE SelectIdx(_, _, _)
\* indices i (ascending) of s with P[i], for a boolean function P on 1..Len(s)
SelectIdx(s, P, i) ==
    IF i > Len(s) THEN <<>>
    ELSE (IF P[i] THEN <<i>> ELSE <<>>) \o SelectIdx(s, P, i + 1)

\* Array.prototype.filter with the test given as a boolean function of index
Pick(s, ix) == Array([k \in 1..Len(ix) |-> s[ix[k]]])
FilterBy(s, P) == Pick(s, SelectIdx(s, P, 1))

RECURSIVE Flatten(_)
Flatten(ss) == IF ss = <<>> THEN <<>> ELSE Head(ss) \o Flatten(Tail(ss))

RECURSIVE IndexOf(_, _, _)
\* Array.prototype.indexOf / findIndex (0-based, -1 when absent)
IndexOf(s, x, i) ==
    IF i > Len(s) THEN -1
    ELSE IF s[i] = x THEN i - 1 ELSE IndexOf(s, x, i + 1)

\* Array.prototype.includes
Includes(s, x) == IndexOf(s, x, 1) >= 0

\* ------------------------------------------------------------- place names
\* A place name is a sequence of characters.
Route1 == <<"R", "o", "u", "t", "e", " ", "1">>
Route3 == <<"R", "o", "u", "t", "e", " ", "3">>
Route12 == <<"R", "o", "u", "t", "e", " ", "1", "2">>
PalletTown == <<"P", "a", "l", "l", "e", "t", " ", "T", "o", "w", "n">>
SafariZone == <<"S", "a", "f", "a", "r", "i", " ", "Z", "o", "n", "e">>
SSAnne == <<"S", "S", " ", "A", "n", "n", "e">>
LowerRoute7 == <<"r", "o", "u", "t", "e", " ", "7">>
NoPlace == <<>>

\* --------------------------------------------------------------- entities
Loc(p, ty, t) == [place |-> p, type |-> ty, time |-> t]
Var(t, c) == [type |-> t, caught |-> c]
Mon(i, r, prev, locs, vars) ==
    [id |-> i, rarity |-> r, previousForms |-> prev, locations |-> locs, variants |-> vars]

\* the null that pads an evolution line (no entity has id 0)
NullMon == Mon(0, "", <<>>, <<>>, <<>>)

\* ------------------------------------------------------------ tripleFilter
RECURSIVE SomeLocation(_, _, _)
\* pokemon.locations.some(...) of tripleFilter: the first record that passes
\* all three tests ends the scan
SomeLocation(locs, af, i) ==
    IF i > Len(locs) THEN FALSE
    ELSE LET location == locs[i]
             matchesLocation == IF af.location # NoPlace THEN location.place = af.location ELSE TRUE
             matchesTime == IF ~Falsy(af.time) THEN location.time = af.time ELSE TRUE
             matchesType == IF ~Falsy(af.type) THEN location.type = af.type ELSE TRUE
         IN IF matchesLocation /\ matchesTime /\ matchesType THEN TRUE
            ELSE SomeLocation(locs, af, i + 1)

\* tripleFilter with a plausible fault: each of the three tests may be met
\* by a record of its own
tripleFilterAnyRecords(pokemon, af) ==
    /\ \E j \in 1..Len(pokemon.locations) :
          af.location = NoPlace \/ pokemon.locations[j].place = af.location
    /\ \E j \in 1..Len(pokemon.locations) :
          Falsy(af.time) \/ pokemon.locations[j].time = af.time
    /\ \E j \in 1..Len(pokemon.locations) :
          Falsy(af.type) \/ pokemon.locations[j].type = af.type

tripleFilter(pokemon, af) == SomeLocation(pokemon.locations, af, 1)

\* --------------------------------------------- getFilteredLines / display list
\* getFilteredLines with a plausible fault: evolutions are matched too
getMatchingEntities(pl, af) ==
    FilterBy(pl, [i \in 1..Len(pl) |-> tripleFilter(pl[i], af)])

getFilteredLines(pl, af) ==
    LET baseForms == FilterBy(pl, [i \in 1..Len(pl) |-> Len(pl[i].previousForms) = 0])
    IN FilterBy(baseForms, [i \in 1..Len(baseForms) |-> tripleFilter(baseForms[i], af)])

getDisplayList(filteredLines, pl) ==
    Flatten(Array([k \in 1..Len(filteredLines) |->
        LET base == filteredLines[k]
            evoChains == FilterBy(pl, [i \in 1..Len(pl) |-> Includes(pl[i].previousForms, base.id)])
        IN <<base>> \o evoChains]))

\* pokemon.variants.some(variant => variant.type === t)
HasVariant(pokemon, t) == \E i \in 1..Len(pokemon.variants) : pokemon.variants[i].type = t

\* the variant filter step of filterPokemon
variantFilteredList(displayList, af) ==
    IF ~Falsy(af.variant)
    THEN FilterBy(displayList, [i \in 1..Len(displayList) |-> HasVariant(displayList[i], af.variant)])
    ELSE displayList

\* ------------------------------------------------------- displayPokemon
\* rarityOrder.indexOf(rarity)
RarityIndex(r) == IndexOf(rarityOrder, r, 1)

RECURSIVE InsertByRarity(_, _)
\* x goes behind every element that does not compare greater than it
InsertByRarity(sorted, x) ==
    IF sorted = <<>> THEN <<x>>
    ELSE IF RarityIndex(sorted[Len(sorted)].rarity) - RarityIndex(x.rarity) <= 0
         THEN Append(sorted, x)
         ELSE Append(InsertByRarity(SubSeq(sorted, 1, Len(sorted) - 1), x), sorted[Len(sorted)])

RECURSIVE SortByRarityFrom(_, _, _)
SortByRarityFrom(list, acc, i) ==
    IF i > Len(list) THEN acc
    ELSE SortByRarityFrom(list, InsertByRarity(acc, list[i]), i + 1)

\* the sort with a plausible fault: the list is left as it is
KeepOrder(list) == list

\* Array.prototype.sort with the rarity comparator (a stable sort)
SortByRarity(list) == SortByRarityFrom(list, <<>>, 1)

\* one entry of sortedByVariant
variantGroupPokemons(list, variantType) ==
    SortByRarity(FilterBy(list, [i \in 1..Len(list) |-> HasVariant(list[i], variantType)]))

\* pokemon.variants.find(v => v.type === t): index of the first one, 0 if none
FindVariant(pokemon, t) == IndexOf([i \in 1..Len(pokemon.variants) |-> pokemon.variants[i].type], t, 1) + 1

\* the allCaught test of displayPokemon (variant?.caught)
groupAllCaught(pokemons, variantType) ==
    \A i \in 1..Len(pokemons) :
        LET k == FindVariant(pokemons[i], variantType)
        IN k > 0 /\ pokemons[i].variants[k].caught

EmptyCell == [id |-> 0, type |-> "", caught |-> FALSE, hidden |-> FALSE]

\* while (line.length < 6) line.push(null)
PadLine(line) == line \o [k \in 1..(IF Len(line) < 6 THEN 6 - Len(line) ELSE 0) |-> NullMon]

\* the evolution lines of getEvolutionRows: one per base form of the list
evolutionLines(list) ==
    LET baseForms == FilterBy(list, [i \in 1..Len(list) |-> Len(list[i].previousForms) = 0])
    IN Array([b \in 1..Len(baseForms) |->
          LET baseForm == baseForms[b]
              evoChain == FilterBy(list, [i \in 1..Len(list) |-> Includes(list[i].previousForms, baseForm.id)])
          IN PadLine(<<baseForm>> \o evoChain)])

\* a card reads pokemon.variants[variantNum]; reading .type of a missing
\* element throws a TypeError
CellThrows(pokemon, variantNum) == pokemon # NullMon /\ variantNum + 1 > Len(pokemon.variants)

Cell(pokemon, variantNum) ==
    IF pokemon = NullMon THEN EmptyCell
    ELSE LET selectedVariant == pokemon.variants[variantNum + 1]
         IN [id |-> pokemon.id, type |-> selectedVariant.type,
             caught |-> selectedVariant.caught, hidden |-> FALSE]

\* the rows built from the evolution lines, or the throw of a card
rowsOf(lines, variantNum) ==
    IF \E r \in 1..Len(lines) : \E c \in 1..Len(lines[r]) : CellThrows(lines[r][c], variantNum)
    THEN [threw |-> TRUE, rows |-> <<>>]
    ELSE [threw |-> FALSE,
          rows |-> Array([r \in 1..Len(lines) |->
                       Array([c \in 1..Len(lines[r]) |-> Cell(lines[r][c], variantNum)])])]

getEvolutionRows(list, variantNum) == rowsOf(evolutionLines(list), variantNum)

\* the three tests of the forEach body that skip a variant group
groupSkipped(pokemons, variantType, af, sc) ==
    \/ Len(pokemons) = 0
    \/ ~sc /\ groupAllCaught(pokemons, variantType)
    \/ af.variant # "" /\ af.variant # variantType

\* sortedByVariant with a plausible fault: variantOrder is walked backwards
sortedByVariantBackwards(list) ==
    Array([v \in 1..Len(variantOrder) |->
        [type |-> variantOrder[Len(variantOrder) + 1 - v],
         pokemons |-> variantGroupPokemons(list, variantOrder[Len(variantOrder) + 1 - v])]])

\* sortedByVariant: one {type, pokemons} per variant type, in variantOrder
sortedByVariant(list) ==
    Array([v \in 1..Len(variantOrder) |->
        [type |-> variantOrder[v], pokemons |-> variantGroupPokemons(list, variantOrder[v])]])

\* the groups of the fragment, given the rows built for each kept group
groupsOf(kept, built) ==
    [threw |-> \E k \in 1..Len(kept) : built[k].threw,
     groups |-> Array([k \in 1..Len(kept) |->
                   [type |-> kept[k].type, rows |-> built[k].rows, hidden |-> FALSE]])]

\* the forEach body past its skips: variantReference and the rows
buildGroups(kept) ==
    groupsOf(kept, Array([k \in 1..Len(kept) |->
                getEvolutionRows(kept[k].pokemons, IndexOf(variantOrder, kept[k].type, 1))]))

displayGroups(sorted, af, sc) ==
    buildGroups(FilterBy(sorted, [v \in 1..Len(sorted) |->
                    ~groupSkipped(sorted[v].pokemons, sorted[v].type, af, sc)]))

\* displayPokemon: the groups appended to the fragment, or a throw that
\* leaves the page as it was
displayPokemon(list, af, sc) == displayGroups(sortedByVariant(list), af, sc)

\* the cards of a group (the non-empty cells)
GroupCards(group) ==
    UNION {{<<r, c>> : c \in {k \in 1..Len(group.rows[r]) : group.rows[r][k].id # 0}} :
              r \in 1..Len(group.rows)}

\* the two passes of filterPokemon over the rendered page
applyGroupVisibility(groups, sc) ==
    Array([g \in 1..Len(groups) |->
        LET allCaught == \A rc \in GroupCards(groups[g]) : groups[g].rows[rc[1]][rc[2]].caught
        IN [groups[g] EXCEPT
              !.hidden = allCaught /\ ~sc,
              !.rows = Array([r \in 1..Len(groups[g].rows) |->
                          Array([c \in 1..Len(groups[g].rows[r]) |->
                              IF ~sc /\ groups[g].rows[r][c].caught
                              THEN [groups[g].rows[r][c] EXCEPT !.hidden = TRUE]
                              ELSE groups[g].rows[r][c]])])]])

\* applyCaughtVisibilityRules: every caught card gets display block / none
applyCaughtVisibilityRules(groups, sc) ==
    Array([g \in 1..Len(groups) |->
        [groups[g] EXCEPT
            !.rows = Array([r \in 1..Len(groups[g].rows) |->
                        Array([c \in 1..Len(groups[g].rows[r]) |->
                            IF groups[g].rows[r][c].caught
                            THEN [groups[g].rows[r][c] EXCEPT !.hidden = ~sc]
                            ELSE groups[g].rows[r][c]])])]])

\* ------------------------------------------------- binary64 arithmetic
\* JavaScript numbers are IEEE-754 binary64.  A positive number is
\* [m, e]: the 53-bit significand m as little-endian digits in base 2^13,
\* and the exponent e of its last bit; value = m * 2^e.
Base == 8192
BaseBits == 13

Pow2(k) == 2 ^ k

RECURSIVE BigCarry(_, _, _)
\* digits of the number whose columns (each < 2^30) are cols[i..]
BigCarry(cols, i, carry) ==
    IF i > Len(cols) THEN (IF carry = 0 THEN <<>> ELSE <<carry % Base>> \o BigCarry(cols, i, carry \div Base))
    ELSE LET t == cols[i] + carry
         IN <<t % Base>> \o BigCarry(cols, i + 1, t \div Base)

RECURSIVE BigTrim(_)
BigTrim(a) == IF a # <<>> /\ a[Len(a)] = 0 THEN BigTrim(SubSeq(a, 1, Len(a) - 1)) ELSE a

Digit(a, i) == IF i >= 1 /\ i <= Len(a) THEN a[i] ELSE 0

RECURSIVE IntToBig(_)
IntToBig(n) == IF n = 0 THEN <<>> ELSE <<n % Base>> \o IntToBig(n \div Base)

RECURSIVE BigToInt(_)
BigToInt(a) == IF a = <<>> THEN 0 ELSE a[1] + Base * BigToInt(Tail(a))

RECURSIVE SumProducts(_, _, _, _)
\* sum of a[i] * b[k + 1 - i] over the i from lo up
SumProducts(a, b, k, i) ==
    IF i > Len(a) \/ i > k THEN 0
    ELSE (IF k + 1 - i <= Len(b) THEN a[i] * b[k + 1 - i] ELSE 0) + SumProducts(a, b, k, i + 1)

BigMul(a, b) ==
    IF a = <<>> \/ b = <<>> THEN <<>>
    ELSE BigTrim(BigCarry([k \in 1..(Len(a) + Len(b) - 1) |-> SumProducts(a, b, k, 1)], 1, 0))

BigAdd(a, b) ==
    LET n == IF Len(a) > Len(b) THEN Len(a) ELSE Len(b)
    IN BigTrim(BigCarry([i \in 1..n |-> Digit(a, i) + Digit(b, i)], 1, 0))

RECURSIVE BigBorrow(_, _, _, _)
BigBorrow(a, b, i, borrow) ==
    IF i > Len(a) THEN <<>>
    ELSE LET t == a[i] - Digit(b, i) - borrow
         IN IF t < 0 THEN <<t + Base>> \o BigBorrow(a, b, i + 1, 1)
            ELSE <<t>> \o BigBorrow(a, b, i + 1, 0)

\* a - b for a >= b
BigSub(a, b) == BigTrim(BigBorrow(a, b, 1, 0))

\* a * 2^s
BigShl(a, s) ==
    LET q == s \div BaseBits
        r == s % BaseBits
    IN IF a = <<>> THEN <<>>
       ELSE [i \in 1..q |-> 0] \o BigTrim(BigCarry([i \in 1..Len(a) |-> a[i] * Pow2(r)], 1, 0))

\* floor(a / 2^s)
BigShr(a, s) ==
    LET q == s \div BaseBits
        r == s % BaseBits
    IN IF Len(a) <= q THEN <<>>
       ELSE BigTrim([i \in 1..(Len(a) - q) |->
                (a[i + q] \div Pow2(r)) + (Digit(a, i + q + 1) % Pow2(r)) * Pow2(BaseBits - r)])

\* a mod 2^s is not zero
BigLowBits(a, s) ==
    LET q == s \div BaseBits
        r == s % BaseBits
    IN \/ \E i \in 1..Len(a) : i <= q /\ a[i] # 0
       \/ Digit(a, q + 1) % Pow2(r) # 0

\* bit i (from 0) of a
BigBit(a, i) == (Digit(a, i \div BaseBits + 1) \div Pow2(i % BaseBits)) % 2

RECURSIVE IntBitLen(_)
IntBitLen(n) == IF n = 0 THEN 0 ELSE 1 + IntBitLen(n \div 2)

\* number of bits of a trimmed a
BigBitLen(a) == IF a = <<>> THEN 0 ELSE (Len(a) - 1) * BaseBits + IntBitLen(a[Len(a)])

FZero == [m |-> <<>>, e |-> 0]

\* round-to-nearest, ties-to-even, of (M + f) * 2^e to 53 bits, where M is a
\* trimmed natural and 0 <= f < 1 is zero iff sticky is FALSE
\* the rounded significand q1 with exponent e, renormalised when the
\* round-up carried into a 54th bit
RoundCarry(q1, e) ==
    IF BigBitLen(q1) = 54 THEN [m |-> BigShr(q1, 1), e |-> e + 1] ELSE [m |-> q1, e |-> e]

\* M has 53 + s bits (s > 0): the guard bit is bit s - 1, the rest is what
\* lies below it, and the kept part is odd when bit s is set
RoundShift(M, e, sticky, s) ==
    RoundCarry(IF BigBit(M, s - 1) = 1 /\ (BigLowBits(M, s - 1) \/ sticky \/ BigBit(M, s) = 1)
               THEN BigAdd(BigShr(M, s), <<1>>)
               ELSE BigShr(M, s),
               e + s)

\* M has L bits
RoundBits(M, e, sticky, L) ==
    IF L = 0 THEN FZero
    ELSE IF L <= 53 THEN [m |-> BigShl(M, 53 - L), e |-> e - (53 - L)]
    ELSE RoundShift(M, e, sticky, L - 53)

RoundToDouble(M, e, sticky) == RoundBits(M, e, sticky, BigBitLen(M))

\* the binary64 of a small natural (exact)
FromInt(n) == RoundToDouble(IntToBig(n), 0, FALSE)

FMul(a, b) ==
    IF a = FZero \/ b = FZero THEN FZero
    ELSE RoundToDouble(BigMul(a.m, b.m), a.e + b.e, FALSE)

\* x + y for x.e >= y.e
FAddOrdered(x, y) ==
    IF x.e - y.e > 64 THEN x
    ELSE RoundToDouble(BigAdd(BigShl(x.m, x.e - y.e), y.m), y.e, FALSE)

FAdd(a, b) ==
    IF a = FZero THEN b
    ELSE IF b = FZero THEN a
    ELSE FAddOrdered(IF a.e >= b.e THEN a ELSE b, IF a.e >= b.e THEN b ELSE a)

\* a - b for a > b > 0 with exponents no more than 64 apart
FSub(a, b) ==
    RoundToDouble(BigSub(BigShl(a.m, IF a.e >= b.e THEN a.e - b.e ELSE 0),
                         BigShl(b.m, IF a.e >= b.e THEN 0 ELSE b.e - a.e)),
                  IF a.e >= b.e THEN b.e ELSE a.e, FALSE)

\* a 53-bit significand as the pair <<high 26 bits, low 27 bits>>
HiLo(m) == <<m[3] \div 2 + m[4] * 4096 + m[5] * 33554432, m[1] + m[2] * Base + (m[3] % 2) * 67108864>>
TwoTo27 == 134217728

\* r - d and 2 * r on <<high, low 27 bits>> pairs
PairSub(r, d) ==
    IF r[2] >= d[2] THEN <<r[1] - d[1], r[2] - d[2]>>
    ELSE <<r[1] - d[1] - 1, r[2] - d[2] + TwoTo27>>

PairDouble(r) == <<2 * r[1] + (2 * r[2]) \div TwoTo27, (2 * r[2]) % TwoTo27>>

RECURSIVE DivBits(_, _, _, _)
\* restoring division: n more quotient bits of r / d, most significant
\* first, appended to the bits acc; r < 2 * d.
\* Returns <<quotient bits, remainder>>.
DivBits(r, d, n, acc) ==
    IF n = 0 THEN <<acc, r>>
    ELSE IF r[1] > d[1] \/ (r[1] = d[1] /\ r[2] >= d[2])
         THEN DivBits(PairDouble(PairSub(r, d)), d, n - 1, 2 * acc + 1)
         ELSE DivBits(PairDouble(r), d, n - 1, 2 * acc)

PrependDigit(digit, more) == [q |-> <<digit>> \o more.q, r |-> more.r]

RECURSIVE DivDigits(_, _, _)
RECURSIVE PushDigit(_, _, _)
\* k digits (13 bits each) of the quotient of r / d, most significant
\* first, and the remainder left after them
DivDigits(r, d, k) ==
    IF k = 0 THEN [q |-> <<>>, r |-> r]
    ELSE PushDigit(DivBits(r, d, BaseBits, 0), d, k)

\* one = <<digit, remainder>>: the digit goes in front of the k - 1 that follow
PushDigit(one, d, k) == PrependDigit(one[1], DivDigits(one[2], d, k - 1))

Reverse(s) == Array([i \in 1..Len(s) |-> s[Len(s) + 1 - i]])

\* the quotient digits qr.q (most significant first) and remainder qr.r, rounded
RoundQuotient(qr, e) == RoundToDouble(BigTrim(Reverse(qr.q)), e, qr.r # <<0, 0>>)

\* a / b, correctly rounded: 65 bits of the quotient of the significands
\* and a sticky bit for the remainder
FDiv(a, b) ==
    IF a = FZero \/ b = FZero THEN FZero
    ELSE RoundQuotient(DivDigits(HiLo(a.m), HiLo(b.m), 5), a.e - b.e - 64)

\* the binary64 nearest to the decimal literal num / den
Literal(num, den) == FDiv(FromInt(num), FromInt(den))

\* Math.round with a plausible fault: Math.floor
MathFloor(x) ==
    IF x = FZero THEN 0
    ELSE IF x.e >= 0 THEN BigToInt(BigShl(x.m, x.e))
    ELSE BigToInt(BigShr(x.m, 0 - x.e))

\* Math.round of a positive number below 2^30: floor(x + 1/2)
MathRound(x) ==
    IF x = FZero THEN 0
    ELSE IF x.e >= 0 THEN BigToInt(BigShl(x.m, x.e))
    ELSE (BigToInt(BigShr(x.m, (0 - x.e) - 1)) + 1) \div 2

\* ------------------------------------------------- calculateProbability
\* the number literals of calculateProbability
One == Literal(1, 1)
RareProbability == Literal(5, 1000)
LegendaryProbability == Literal(1, 1000)
UltraBeastProbability == Literal(1, 10000)
Mod092 == Literal(92, 100)
Mod001 == Literal(1, 100)
Mod002 == Literal(2, 100)
Mod06 == Literal(6, 10)
Mod005 == Literal(5, 100)
Mod01 == Literal(1, 10)

\* rarityProbabilities[r], with the value its "Common" entry holds
rarityProbabilities(r, common) ==
    CASE r = "Common" -> common
      [] r = "Rare" -> RareProbability
      [] r = "Legendary" -> LegendaryProbability
      [] r = "Ultra Beast" -> UltraBeastProbability

commonModifiers(t) ==
    CASE t = "Normal" -> Mod092
      [] t \in {"Shiny", "Shadow"} -> Mod001
      [] t \in {"Dark", "Mystic", "Metallic"} -> Mod002

rareModifiers(t) ==
    CASE t = "Normal" -> Mod06
      [] t \in {"Shiny", "Shadow"} -> Mod005
      [] t \in {"Dark", "Mystic", "Metallic"} -> Mod01

\* pokemon.variants.some(variant => !variant.caught)
HasUncaught(pokemon) == \E i \in 1..Len(pokemon.variants) : ~pokemon.variants[i].caught

\* uncaughtPokemon with a plausible fault: caught entities are kept
everyPokemon(list) == list

uncaughtPokemon(list) == FilterBy(list, [i \in 1..Len(list) |-> HasUncaught(list[i])])

totalRares(list, af) ==
    Len(FilterBy(list, [i \in 1..Len(list) |->
        \/ list[i].rarity = "Rare"
        \/ Len(list[i].previousForms) > 0 /\ tripleFilter(list[i], af)]))

totalCommons(list) ==
    Len(FilterBy(list, [i \in 1..Len(list) |->
        list[i].rarity = "Common" /\ Len(list[i].previousForms) = 0]))

\* list.some(pokemon => pokemon.rarity === r)
SomeRarity(list, r) == \E i \in 1..Len(list) : list[i].rarity = r

RECURSIVE SubtractEach(_, _, _, _)
\* the statements  if (present[i]) commonProb -= rarityProbabilities[rarities[i]]
\* from the i-th on, in program order
SubtractEach(p, rarities, present, i) ==
    IF i > Len(rarities) THEN p
    ELSE SubtractEach(IF present[i] THEN FSub(p, rarityProbabilities(rarities[i], One)) ELSE p,
                      rarities, present, i + 1)

\* the Common mass after the three subtractions
commonProb(list, af) ==
    SubtractEach(One, <<"Rare", "Legendary", "Ultra Beast">>,
                 <<totalRares(list, af) > 0, SomeRarity(list, "Legendary"),
                   SomeRarity(list, "Ultra Beast")>>, 1)

encounterRarity(pokemon) ==
    IF pokemon.rarity = "Common" /\ Len(pokemon.previousForms) > 0 THEN "Rare" ELSE pokemon.rarity

\* p /= n, which the program does only for a positive n
DivideBy(p, n) == IF n > 0 THEN FDiv(p, FromInt(n)) ELSE p

\* pokemonProbability of one uncaught entity, after the division
pokemonProbability(pokemon, common, nCommons, nRares) ==
    DivideBy(rarityProbabilities(encounterRarity(pokemon), common),
             IF encounterRarity(pokemon) = "Common" THEN nCommons
             ELSE IF encounterRarity(pokemon) = "Rare" THEN nRares
             ELSE 0)

selectedModifiers(pokemon, t) ==
    IF encounterRarity(pokemon) = "Common" THEN commonModifiers(t) ELSE rareModifiers(t)

\* the (entity, variant) index pairs of the two nested forEach loops whose
\* variant is uncaught, in the order the loops visit them
uncaughtPairs(unc) ==
    Flatten(Array([i \in 1..Len(unc) |->
        Array([j \in 1..Len(unc[i].variants) |->
            IF unc[i].variants[j].caught THEN <<>> ELSE <<i, j>>])]))

RECURSIVE AddTerms(_, _, _, _)
\* routeProbability after the first k visits of the inner loop
\*   if (!variant.caught) routeProbability += pokemonProbability * selectedModifiers[variant.type]
AddTerms(unc, probs, pairs, k) ==
    IF k = 0 THEN FZero
    ELSE IF pairs[k] = <<>> THEN AddTerms(unc, probs, pairs, k - 1)
    ELSE FAdd(AddTerms(unc, probs, pairs, k - 1),
              FMul(probs[pairs[k][1]],
                   selectedModifiers(unc[pairs[k][1]], unc[pairs[k][1]].variants[pairs[k][2]].type)))

SumTerms(unc, probs, pairs) == AddTerms(unc, probs, pairs, Len(pairs))

\* the sum routeProbability before it is inverted
routeSum(unc, common, nCommons, nRares) ==
    SumTerms(unc,
             Array([i \in 1..Len(unc) |-> pokemonProbability(unc[i], common, nCommons, nRares)]),
             uncaughtPairs(unc))

calculateProbability(list, af) ==
    IF Len(uncaughtPokemon(list)) = 0 THEN undefined
    ELSE MathRound(FDiv(One, routeSum(uncaughtPokemon(list), commonProb(list, af),
                                      totalCommons(list), totalRares(list, af))))

\* ------------------------------------------------------------ Area Index
\* An object is a sequence of [key, value] entries in insertion order.
Keys(obj) == Array([i \in 1..Len(obj) |-> obj[i].key])
Values(obj) == Array([i \in 1..Len(obj) |-> obj[i].value])
HasKey(obj, k) == \E i \in 1..Len(obj) : obj[i].key = k
KeyIndex(obj, k) == IndexOf(Keys(obj), k, 1) + 1

\* obj[k] = v: overwrite in place or append a new key
Put(obj, k, v) ==
    IF HasKey(obj, k) THEN [obj EXCEPT ![KeyIndex(obj, k)].value = v]
    ELSE Append(obj, [key |-> k, value |-> v])

\* obj[k] of an object with numeric values (undefined when the key is missing)
GetNum(obj, k) == IF HasKey(obj, k) THEN obj[KeyIndex(obj, k)].value ELSE undefined

\* obj[k] || {} of an object with object values
GetObj(obj, k) == IF HasKey(obj, k) THEN obj[KeyIndex(obj, k)].value ELSE <<>>

RECURSIVE AddLocations(_, _, _)
\* the forEach over one entity's locations in generateAreasArray
AddLocations(areas, locs, j) ==
    IF j > Len(locs) THEN areas
    ELSE LET l == locs[j]
             types0 == GetObj(areas, l.place)
             times0 == GetObj(types0, l.type)
             times1 == Put(times0, l.time, 0)
         IN AddLocations(Put(areas, l.place, Put(types0, l.type, times1)), locs, j + 1)

RECURSIVE AddEntities(_, _, _)
AddEntities(areas, pl, i) ==
    IF i > Len(pl) THEN areas
    ELSE AddEntities(AddLocations(areas, pl[i].locations, 1), pl, i + 1)

\* generateAreasArray with a plausible fault: one entry per location record,
\* not grouped by place
generateAreasPerRecord(pl) ==
    Flatten(Array([i \in 1..Len(pl) |->
        Array([j \in 1..Len(pl[i].locations) |->
            [name |-> pl[i].locations[j].place,
             types |-> <<[key |-> pl[i].locations[j].type,
                          value |-> <<[key |-> pl[i].locations[j].time, value |-> 0]>>]>>]])]))

\* generateAreasArray: one {name, types} per place, every leaf 0
generateAreasArray(pl) ==
    LET areas == AddEntities(<<>>, pl, 1)
    IN Array([a \in 1..Len(areas) |-> [name |-> areas[a].key, types |-> areas[a].value]])

\* the entities of allProbabilities for one (place, type, time)
areaEntities(pl, place, type, time) ==
    FilterBy(pl, [i \in 1..Len(pl) |->
        \E j \in 1..Len(pl[i].locations) :
            /\ pl[i].locations[j].place = place
            /\ pl[i].locations[j].type = type
            /\ pl[i].locations[j].time = time])

\* allProbabilities: every leaf gets calculateProbability of its entities
allProbabilities(areas, pl, af) ==
    Array([a \in 1..Len(areas) |->
        [areas[a] EXCEPT !.types =
            Array([t \in 1..Len(areas[a].types) |->
                [areas[a].types[t] EXCEPT !.value =
                    Array([d \in 1..Len(areas[a].types[t].value) |->
                        [areas[a].types[t].value[d] EXCEPT !.value =
                            calculateProbability(
                                areaEntities(pl, areas[a].name, areas[a].types[t].key,
                                             areas[a].types[t].value[d].key), af)]])]])]])

\* areasArray.find(area => area.name === name): index of the first, 0 if none
FindArea(areas, name) == IndexOf([a \in 1..Len(areas) |-> areas[a].name], name, 1) + 1

\* ------------------------------------------------------- areaProbability
\* the reads of areaProbability that throw a TypeError: no area of that
\* name, or no such type in the area
areaProbabilityThrows(areas, af) ==
    \/ FindArea(areas, af.location) = 0
    \/ ~HasKey(areas[FindArea(areas, af.location)].types, af.type)

\* number of caught variants over a list
CountCaught(list) ==
    LET n == [i \in 1..Len(list) |->
                Cardinality({j \in 1..Len(list[i].variants) : list[i].variants[j].caught})]
        Sum[i \in 0..Len(list)] == IF i = 0 THEN 0 ELSE Sum[i - 1] + n[i]
    IN Sum[Len(list)]

\* the writes of areaProbability once filteredPokemonList, routeProbability
\* and the index a of the area are known
areaWrites(ui, af, areaPokemon, filteredPokemonList, routeProbability, a) ==
    [ui EXCEPT
        !.areasArray[a].types =
            Put(ui.areasArray[a].types, af.type,
                Put(GetObj(ui.areasArray[a].types, af.type), af.time, routeProbability)),
        !.totalPokemon = Len(areaPokemon) * 6,
        !.caughtPokemon = CountCaught(areaPokemon),
        !.routeCompletion = TRUE,
        !.routeProbability = routeProbability # undefined,
        !.areaCalled = TRUE,
        !.areaRan = TRUE,
        !.areaList = filteredPokemonList,
        !.areaResult = routeProbability]

areaProbabilityOf(ui, af, areaPokemon, filteredPokemonList) ==
    areaWrites(ui, af, areaPokemon, filteredPokemonList,
               calculateProbability(filteredPokemonList, af),
               FindArea(ui.areasArray, af.location))

\* areaProbability(areaPokemon), on the page state ui; ui.threw is set when
\* the handler is left by an exception
areaProbability(areaPokemon, af, ui) ==
    IF areaProbabilityThrows(ui.areasArray, af) THEN [ui EXCEPT !.threw = TRUE, !.areaCalled = TRUE]
    ELSE areaProbabilityOf(ui, af, areaPokemon,
            FilterBy(areaPokemon, [i \in 1..Len(areaPokemon) |-> tripleFilter(areaPokemon[i], af)]))

\* --------------------------------------------------------- filterPokemon
\* the end of filterPokemon: ui1 is the page after the probability step,
\* shown is what displayPokemon built
showPokemon(ui1, shown, sc) ==
    IF ui1.threw THEN ui1
    ELSE IF shown.threw THEN [ui1 EXCEPT !.threw = TRUE]
    ELSE [ui1 EXCEPT !.pokedex = applyGroupVisibility(shown.groups, sc)]

\* filterPokemon from the variant-filtered list on
filterList(list, af, sc, ui) ==
    showPokemon(IF af.location # NoPlace /\ ~Falsy(af.time) /\ ~Falsy(af.type) /\ Len(list) > 0
                THEN areaProbability(list, af, ui)
                ELSE [ui EXCEPT !.routeProbability = FALSE, !.routeCompletion = FALSE],
                displayPokemon(list, af, sc), sc)

\* the page when a handler starts: nothing thrown, areaProbability not run
Fresh(ui0) ==
    [ui0 EXCEPT !.threw = FALSE, !.areaCalled = FALSE, !.areaRan = FALSE, !.areaList = <<>>,
                !.areaResult = undefined]

\* filterPokemon() on the page state ui0
filterPokemon(pl, af, sc, ui0) ==
    IF af.location = NoPlace /\ Falsy(af.time) /\ Falsy(af.type) /\ Falsy(af.variant)
    THEN [Fresh(ui0) EXCEPT !.pokedex = <<>>]
    ELSE filterList(variantFilteredList(getDisplayList(getFilteredLines(pl, af), pl), af),
                    af, sc, Fresh(ui0))

\* ------------------------------------------------------ place ordering
Digits == <<"0", "1", "2", "3", "4", "5", "6", "7", "8", "9">>
LowerCase == <<"a", "b", "c", "d", "e", "f", "g", "h", "i", "j", "k", "l", "m",
               "n", "o", "p", "q", "r", "s", "t", "u", "v", "w", "x", "y", "z">>
UpperCase == <<"A", "B", "C", "D", "E", "F", "G", "H", "I", "J", "K", "L", "M",
               "N", "O", "P", "Q", "R", "S", "T", "U", "V", "W", "X", "Y", "Z">>

IsDigit(c) == Includes(Digits, c)
DigitValue(c) == IndexOf(Digits, c, 1)
ToLower(c) == IF Includes(UpperCase, c) THEN LowerCase[IndexOf(UpperCase, c, 1) + 1] ELSE c

\* /^Route \d+$/i .test(name)
IsRouteName(name) ==
    /\ Len(name) >= 7
    /\ [i \in 1..6 |-> ToLower(name[i])] = <<"r", "o", "u", "t", "e", " ">>
    /\ \A i \in 7..Len(name) : IsDigit(name[i])

RECURSIVE DigitRun(_, _, _)
\* the value of the digits of name from position i to the first non-digit
DigitRun(name, i, acc) ==
    IF i > Len(name) \/ ~IsDigit(name[i]) THEN acc
    ELSE DigitRun(name, i + 1, 10 * acc + DigitValue(name[i]))

RECURSIVE FirstDigit(_, _)
FirstDigit(name, i) ==
    IF i > Len(name) THEN 0 ELSE IF IsDigit(name[i]) THEN i ELSE FirstDigit(name, i + 1)

\* parseInt(name.match(/\d+/)) of a name that has a digit
RouteNumber(name) == DigitRun(name, FirstDigit(name, 1), 0)

\* primary collation weight of a character: space, then digits, then
\* letters without regard to case
Weight(c) ==
    IF c = " " THEN 0
    ELSE IF IsDigit(c) THEN 1 + DigitValue(c)
    ELSE 11 + IndexOf(LowerCase, ToLower(c), 1)

RECURSIVE ComparePrimary(_, _, _)
ComparePrimary(a, b, i) ==
    IF i > Len(a) /\ i > Len(b) THEN 0
    ELSE IF i > Len(a) THEN -1
    ELSE IF i > Len(b) THEN 1
    ELSE IF Weight(a[i]) # Weight(b[i]) THEN Weight(a[i]) - Weight(b[i])
    ELSE ComparePrimary(a, b, i + 1)

RECURSIVE CompareCase(_, _, _)
\* equal but for case: the lower-case letter sorts first
CompareCase(a, b, i) ==
    IF i > Len(a) THEN 0
    ELSE IF a[i] = b[i] THEN CompareCase(a, b, i + 1)
    ELSE IF Includes(LowerCase, a[i]) THEN -1 ELSE 1

\* a.localeCompare(b)
localeCompare(a, b) ==
    IF ComparePrimary(a, b, 1) # 0 THEN ComparePrimary(a, b, 1) ELSE CompareCase(a, b, 1)

\* the comparator recommendedRoute sorts areasArray with
compareAreas(a, b) ==
    IF IsRouteName(a.name)
    THEN (IF IsRouteName(b.name) THEN RouteNumber(a.name) - RouteNumber(b.name) ELSE -1)
    ELSE (IF IsRouteName(b.name) THEN 1 ELSE localeCompare(a.name, b.name))

RECURSIVE InsertArea(_, _)
InsertArea(sorted, x) ==
    IF sorted = <<>> THEN <<x>>
    ELSE IF compareAreas(sorted[Len(sorted)], x) <= 0 THEN Append(sorted, x)
         ELSE Append(InsertArea(SubSeq(sorted, 1, Len(sorted) - 1), x), sorted[Len(sorted)])

RECURSIVE SortAreasFrom(_, _, _)
SortAreasFrom(areas, acc, i) ==
    IF i > Len(areas) THEN acc ELSE SortAreasFrom(areas, InsertArea(acc, areas[i]), i + 1)

\* areasArray.sort(comparator)
sortAreas(areas) == SortAreasFrom(areas, <<>>, 1)

\* UTF-16 code unit of a character
CharCode(c) ==
    IF c = " " THEN 32
    ELSE IF IsDigit(c) THEN 48 + DigitValue(c)
    ELSE IF Includes(UpperCase, c) THEN 65 + IndexOf(UpperCase, c, 1)
    ELSE 97 + IndexOf(LowerCase, c, 1)

RECURSIVE CompareCodeUnits(_, _, _)
\* the order of Array.prototype.sort without a comparator: by code units
CompareCodeUnits(a, b, i) ==
    IF i > Len(a) /\ i > Len(b) THEN 0
    ELSE IF i > Len(a) THEN -1
    ELSE IF i > Len(b) THEN 1
    ELSE IF CharCode(a[i]) # CharCode(b[i]) THEN CharCode(a[i]) - CharCode(b[i])
    ELSE CompareCodeUnits(a, b, i + 1)

RECURSIVE InsertByNumber(_, _)
InsertByNumber(sorted, x) ==
    IF sorted = <<>> THEN <<x>>
    ELSE IF RouteNumber(sorted[Len(sorted)]) - RouteNumber(x) <= 0 THEN Append(sorted, x)
         ELSE Append(InsertByNumber(SubSeq(sorted, 1, Len(sorted) - 1), x), sorted[Len(sorted)])

RECURSIVE InsertByCodeUnits(_, _)
InsertByCodeUnits(sorted, x) ==
    IF sorted = <<>> THEN <<x>>
    ELSE IF CompareCodeUnits(sorted[Len(sorted)], x, 1) <= 0 THEN Append(sorted, x)
         ELSE Append(InsertByCodeUnits(SubSeq(sorted, 1, Len(sorted) - 1), x), sorted[Len(sorted)])

RECURSIVE SortNamesFrom(_, _, _, _)
\* a stable sort of names: by route number, or by code units
SortNamesFrom(names, byNumber, acc, i) ==
    IF i > Len(names) THEN acc
    ELSE SortNamesFrom(names, byNumber,
            IF byNumber THEN InsertByNumber(acc, names[i]) ELSE InsertByCodeUnits(acc, names[i]),
            i + 1)

\* sortLocations(locations, /^Route \d+$/i)
sortLocations(locations) ==
    LET matching == FilterBy(locations, [i \in 1..Len(locations) |-> IsRouteName(locations[i])])
        nonMatching == FilterBy(locations, [i \in 1..Len(locations) |-> ~IsRouteName(locations[i])])
    IN SortNamesFrom(matching, TRUE, <<>>, 1) \o SortNamesFrom(nonMatching, FALSE, <<>>, 1)

RECURSIVE AddToSet(_, _, _)
\* new Set() filled by add: the distinct values in the order they first came
AddToSet(values, acc, i) ==
    IF i > Len(values) THEN acc
    ELSE AddToSet(values, IF Includes(acc, values[i]) THEN acc ELSE Append(acc, values[i]), i + 1)

\* the places populateLocationFilter collects from the catalogue
allLocations(pl) ==
    AddToSet(Flatten(Array([i \in 1..Len(pl) |->
                Array([j \in 1..Len(pl[i].locations) |-> pl[i].locations[j].place])])), <<>>, 1)

\* populateLocationFilter: the options of the location filter after its
\* "No Route Selected"
populateLocationFilter(pl) == sortLocations(allLocations(pl))

\* ------------------------------------------------------ recommendedRoute
IsNaN(v) == v = NaN \/ v = undefined

RECURSIVE MinFrom(_, _, _)
MinFrom(vals, i, acc) ==
    IF i > Len(vals) THEN acc
    ELSE MinFrom(vals, i + 1,
            IF vals[i] = Infinity THEN acc
            ELSE IF acc = Infinity \/ vals[i] < acc THEN vals[i] ELSE acc)

\* Math.min(...vals): Infinity for no argument, NaN if any argument is
\* undefined or NaN
MathMin(vals) ==
    IF \E i \in 1..Len(vals) : IsNaN(vals[i]) THEN NaN ELSE MinFrom(vals, 1, Infinity)

\* a < b
JsLess(a, b) ==
    IF IsNaN(a) \/ IsNaN(b) THEN FALSE
    ELSE IF a = Infinity THEN FALSE
    ELSE IF b = Infinity THEN TRUE
    ELSE a < b

\* a === b on numbers and undefined
StrictEq(a, b) == a # NaN /\ a = b

RECURSIVE MergeFrom(_, _, _)
MergeFrom(obj, other, i) ==
    IF i > Len(other) THEN obj
    ELSE MergeFrom(Put(obj, other[i].key, other[i].value), other, i + 1)

\* {...a, ...b}
Spread(a, b) == MergeFrom(a, b, 1)

\* Math.min(...Object.values(times)) without a time filter, else times[time]
timeValue(times, af) == IF af.time = "" THEN MathMin(Values(times)) ELSE GetNum(times, af.time)

\* the object the two map/filter callbacks leave in `time`
chosenBetween(landTime, waterTime, af) ==
    IF Len(landTime) = 0 \/ Len(waterTime) = 0 THEN Spread(landTime, waterTime)
    ELSE IF JsLess(timeValue(landTime, af), timeValue(waterTime, af)) THEN landTime ELSE waterTime

chosenTime(area, af) == chosenBetween(GetObj(area.types, "Land"), GetObj(area.types, "Water"), af)

\* the value the callbacks compute for an area
areaValue(area, af) == timeValue(chosenTime(area, af), af)

NullIfNaN(v) == IF IsNaN(v) THEN Null ELSE v

NotNull(vals) == FilterBy(vals, [a \in 1..Len(vals) |-> vals[a] # Null])

timeValues(sortedAreas, af) ==
    NotNull(Array([a \in 1..Len(sortedAreas) |-> NullIfNaN(areaValue(sortedAreas[a], af))]))

routesWith(sortedAreas, af, minTimeValue) ==
    FilterBy(sortedAreas, [a \in 1..Len(sortedAreas) |->
        StrictEq(areaValue(sortedAreas[a], af), minTimeValue)])

matchingRoutes(sortedAreas, af) == routesWith(sortedAreas, af, MathMin(timeValues(sortedAreas, af)))

RECURSIVE ReduceMinType(_, _, _, _)
\* Object.keys(types).reduce((minKey, currentKey) => ...) without seed
ReduceMinType(types, time, i, minKey) ==
    IF i > Len(types) THEN minKey
    ELSE ReduceMinType(types, time, i + 1,
            IF StrictEq(MathMin(<<GetNum(GetObj(types, minKey), time), GetNum(types[i].value, time)>>),
                        GetNum(types[i].value, time))
            THEN types[i].key ELSE minKey)

minType(optimalRoute, af) == ReduceMinType(optimalRoute.types, af.time, 2, optimalRoute.types[1].key)

FirstKey(times, hits) == IF Len(hits) = 0 THEN "undefined" ELSE times[hits[1]].key

\* Object.keys(times).find(time => times[time] === Math.min(...values))
minTime(times) ==
    FirstKey(times, SelectIdx(times, [i \in 1..Len(times) |->
                        StrictEq(times[i].value, MathMin(Values(times)))], 1))

\* the filters recommendedRoute leaves for the route and its minType mt
routeFilters(optimalRoute, af, mt) ==
    [af EXCEPT
        !.time = IF af.time = "" THEN minTime(GetObj(optimalRoute.types, mt)) ELSE af.time,
        !.location = optimalRoute.name,
        !.type = mt]

recommendedFilters(optimalRoute, af) == routeFilters(optimalRoute, af, minType(optimalRoute, af))

\* ------------------------------------------------------------ catalogues
\* an evolution line whose members live in different areas or in none, a
\* base form of higher rarity ahead of one of lower rarity
CatLines ==
    <<Mon(1, "Rare", <<>>, <<Loc(Route3, "Land", "Day")>>, <<Var("Normal", FALSE)>>),
      Mon(2, "Common", <<>>, <<Loc(Route3, "Land", "Day"), Loc(PalletTown, "Water", "Night")>>,
          <<Var("Normal", FALSE), Var("Dark", TRUE)>>),
      Mon(3, "Legendary", <<2>>, <<Loc(PalletTown, "Land", "Day")>>, <<Var("Normal", FALSE)>>),
      Mon(4, "Rare", <<2>>, <<>>, <<Var("Normal", FALSE)>>)>>

\* variant sequences that are not in display order, or are shorter
CatVariants ==
    <<Mon(1, "Common", <<>>, <<Loc(Route12, "Land", "Day")>>,
          <<Var("Dark", FALSE), Var("Normal", TRUE)>>),
      Mon(2, "Rare", <<>>, <<Loc(Route12, "Land", "Night")>>,
          <<Var("Normal", FALSE), Var("Shiny", FALSE)>>)>>

\* a place with both types, and places that are not in sorted order
CatAreas ==
    <<Mon(1, "Rare", <<>>, <<Loc(Route12, "Land", "Day"), Loc(Route3, "Land", "Day")>>,
          <<Var("Normal", FALSE)>>),
      Mon(2, "Common", <<>>, <<Loc(Route3, "Water", "Day"), Loc(Route3, "Water", "Night")>>,
          <<Var("Normal", FALSE)>>)>>

\* rare encounters only, every variant type present
CatRare ==
    <<Mon(1, "Legendary", <<>>, <<Loc(Route1, "Land", "Day")>>, <<Var("Normal", FALSE)>>),
      Mon(2, "Ultra Beast", <<>>, <<Loc(Route1, "Land", "Day")>>,
          <<Var("Normal", TRUE), Var("Dark", FALSE), Var("Mystic", FALSE),
            Var("Metallic", FALSE), Var("Shadow", FALSE), Var("Shiny", FALSE)>>)>>

Catalogues == {CatLines, CatVariants, CatAreas, CatRare}

\* the options of the four filter controls
PlacesOf(pl) == {pl[i].locations[j].place : <<i, j>> \in {ij \in (1..Len(pl)) \X (1..2) : ij[2] <= Len(pl[ij[1]].locations)}}
TimeOptions == {"", "Day", "Night"}
TypeOptions == {"", "Land", "Water"}
VariantOptions == {"", "Normal", "Shiny"}

\* cap on the number of caught-flag edits (card clicks and imports) in a run
MaxEdits == 1

\* ------------------------------------------------------------------ state
VARIABLES
    pokemonList,        \* the catalogue with its caught flags
    activeFilters,      \* location, time, type, variant
    showCaught,
    caughtPokemon,      \* the route counters
    totalPokemon,
    areasArray,         \* the Area Index
    storage,            \* localStorage["pokedex"]
    pokedex,            \* the rendered variant groups
    routeProbability,   \* the element is displayed
    routeCompletion,    \* the element is displayed
    threw,              \* the last handler was cut short by an exception
    areaCalled,         \* the last handler called areaProbability
    areaRan,            \* ... and it ran to its end
    areaList,           \* ... on this list (after its tripleFilter)
    areaResult,         \* ... with this result of calculateProbability
    edits,              \* number of card clicks and imports so far
    locationOptions,    \* the places of the location filter, in order
    textarea,           \* the import/export textarea
    loads,              \* the loadPokemon calls that have not run to their end
    filterElement,      \* the values of the four filter controls
    debounceTimer,      \* the pending timers of the controls, in the order they are due
    changes,            \* number of change events that were left to their timers so far
    handled             \* the last run of a debounced handler

vars == <<pokemonList, activeFilters, showCaught, caughtPokemon, totalPokemon, areasArray,
          storage, pokedex, routeProbability, routeCompletion, threw, areaCalled, areaRan, areaList,
          areaResult, edits, locationOptions, textarea, loads, filterElement, debounceTimer,
          changes, handled>>

NoFilters == [location |-> NoPlace, time |-> "", type |-> "", variant |-> ""]

\* values of the textarea: empty, the message of a failed import, or the
\* base64 text of gzip-compressed data
EmptyText == [kind |-> "empty", data |-> <<>>]
ErrorText == [kind |-> "error", data |-> <<>>]

\* no debounced handler has run yet
NoRun == [events |-> 0, stale |-> FALSE]

\* the run of a handler that answers the given number of change events of its
\* control, with the filters af and the control values controls at that time
HandlerRun(events, af, controls) == [events |-> events, stale |-> af # controls]

\* the page state the handlers work on
UI == [areasArray |-> areasArray, totalPokemon |-> totalPokemon, caughtPokemon |-> caughtPokemon,
       routeProbability |-> routeProbability, routeCompletion |-> routeCompletion,
       pokedex |-> pokedex, threw |-> FALSE, areaCalled |-> FALSE, areaRan |-> FALSE,
       areaList |-> <<>>,
       areaResult |-> undefined]

Commit(ui) ==
    /\ areasArray' = ui.areasArray
    /\ totalPokemon' = ui.totalPokemon
    /\ caughtPokemon' = ui.caughtPokemon
    /\ routeProbability' = ui.routeProbability
    /\ routeCompletion' = ui.routeCompletion
    /\ pokedex' = ui.pokedex
    /\ threw' = ui.threw
    /\ areaCalled' = ui.areaCalled
    /\ areaRan' = ui.areaRan
    /\ areaList' = ui.areaList
    /\ areaResult' = ui.areaResult

\* after window.onload: the catalogue is resident, the Area Index is built
\* and filled, no filter is set
InitWith(catalogue) ==
    /\ pokemonList = catalogue
    /\ activeFilters = NoFilters
    /\ showCaught = TRUE
    /\ caughtPokemon = 0
    /\ totalPokemon = 0
    /\ areasArray = allProbabilities(generateAreasArray(pokemonList), pokemonList, NoFilters)
    /\ storage = pokemonList
    /\ pokedex = <<>>
    /\ routeProbability = FALSE
    /\ routeCompletion = FALSE
    /\ threw = FALSE
    /\ areaCalled = FALSE
    /\ areaRan = FALSE
    /\ areaList = <<>>
    /\ areaResult = undefined
    /\ edits = 0
    /\ locationOptions = populateLocationFilter(pokemonList)
    /\ textarea = EmptyText
    /\ loads = <<>>
    /\ filterElement = NoFilters
    /\ debounceTimer = <<>>
    /\ changes = 0
    /\ handled = NoRun

Init == \E catalogue \in Catalogues : InitWith(catalogue)
InitLines == InitWith(CatLines)
InitVariants == InitWith(CatVariants)
InitAreas == InitWith(CatAreas)
InitRare == InitWith(CatRare)

\* a change event on one filter control with no timer pending and no other
\* event before its timer is due, and the debounced handler it leads to
FilterChange(field, value) ==
    /\ debounceTimer = <<>>
    /\ value # activeFilters[field]
    /\ activeFilters' = [activeFilters EXCEPT ![field] = value]
    /\ Commit(filterPokemon(pokemonList, [activeFilters EXCEPT ![field] = value], showCaught, UI))
    /\ filterElement' = [filterElement EXCEPT ![field] = value]
    /\ handled' = HandlerRun(1, [activeFilters EXCEPT ![field] = value],
                             [filterElement EXCEPT ![field] = value])
    /\ UNCHANGED <<debounceTimer, changes>>
    /\ UNCHANGED <<pokemonList, showCaught, storage, edits, locationOptions, textarea, loads>>

LocationChange == \E v \in PlacesOf(pokemonList) \cup {NoPlace} : FilterChange("location", v)
TimeChange == \E v \in TimeOptions : FilterChange("time", v)
TypeChange == \E v \in TypeOptions : FilterChange("type", v)
VariantChange == \E v \in VariantOptions : FilterChange("variant", v)

\* flipAt with a plausible fault: the variant is marked caught, not flipped
catchAt(pl, p, v) ==
    IF p = 0 \/ v = 0 THEN pl
    ELSE [pl EXCEPT ![p].variants[v].caught = TRUE]

\* pokemonList after toggleCaught(id, variantType) flipped the variant
flipAt(pl, p, v) ==
    IF p = 0 \/ v = 0 THEN pl
    ELSE [pl EXCEPT ![p].variants[v].caught = ~pl[p].variants[v].caught]

flipIn(pl, p, variantType) == flipAt(pl, p, IF p = 0 THEN 0 ELSE FindVariant(pl[p], variantType))

flipCaught(pl, id, variantType) ==
    flipIn(pl, IndexOf([i \in 1..Len(pl) |-> pl[i].id], id, 1) + 1, variantType)

\* the end of toggleCaught, past filterPokemon
afterToggle(ui1, sc) ==
    IF ui1.threw \/ sc THEN ui1
    ELSE [ui1 EXCEPT !.pokedex = applyCaughtVisibilityRules(ui1.pokedex, sc)]

\* toggleCaught(id, variantType) on the page state ui
toggleCaught(pl, id, variantType, af, sc, ui) ==
    IF flipCaught(pl, id, variantType) = pl THEN ui
    ELSE afterToggle(filterPokemon(flipCaught(pl, id, variantType), af, sc, ui), sc)

\* the cards a click can reach: <<id, type>> of every visible card
ClickableCards ==
    UNION {{<<pokedex[g].rows[rc[1]][rc[2]].id, pokedex[g].rows[rc[1]][rc[2]].type>> :
               rc \in {x \in GroupCards(pokedex[g]) : ~pokedex[g].rows[x[1]][x[2]].hidden}} :
              g \in {k \in 1..Len(pokedex) : ~pokedex[k].hidden}}

\* CommitList with a plausible fault: the flipped list is saved in a later
\* task, so the snapshot is still the old one when the handler ends
CommitUnsaved(pl) ==
    /\ pokemonList' = pl
    /\ storage' = storage

\* CommitList with a plausible fault: the sort of the cards by rarity is done
\* in place on the catalogue
CommitSorted(pl) ==
    /\ pokemonList' = SortByRarity(pl)
    /\ storage' = IF pl # pokemonList THEN pl ELSE storage

\* the flipped list is resident and, when a variant was flipped, saved
CommitList(pl) ==
    /\ pokemonList' = pl
    /\ storage' = IF pl # pokemonList THEN pl ELSE storage

\* a click on a card: onclick="toggleCaught(id, type)"
ToggleCaught ==
    /\ edits < MaxEdits
    /\ \E card \in ClickableCards :
        /\ CommitList(flipCaught(pokemonList, card[1], card[2]))
        /\ Commit(toggleCaught(pokemonList, card[1], card[2], activeFilters, showCaught, UI))
    /\ edits' = edits + 1
    /\ UNCHANGED <<filterElement, debounceTimer, changes, handled>>
    /\ UNCHANGED <<activeFilters, showCaught, locationOptions, textarea, loads>>

\* ------------------------------------------------------ importPokedexData
\* the payload once decoded and parsed: entries {id, variants}; an entry
\* whose id is missing or 0 has id 0 here
\* a variants field that is missing, and a null where a variant record
\* should be
MissingVariants == <<Var("undefined", FALSE)>>
NullVariant == Var("null", FALSE)

\* !pokemon.id || !pokemon.variants
InvalidEntry(entry) == entry.id = 0 \/ entry.variants = MissingVariants

\* importedPokemon.variants.map(variant => variant.type) reads .type of null
\* and throws a TypeError; the line is reached when the id is resident
mergeThrows(importedPokemon, p) ==
    p # 0 /\ \E v \in 1..Len(importedPokemon.variants) : importedPokemon.variants[v] = NullVariant

\* the merge with a plausible fault: the imported variants are matched by
\* position, not by type
mergeByPosition(existingPokemon, importedPokemon) ==
    [existingPokemon EXCEPT !.variants =
        Array([v \in 1..Len(existingPokemon.variants) |->
            IF v <= Len(importedPokemon.variants)
            THEN [existingPokemon.variants[v] EXCEPT !.caught = importedPokemon.variants[v].caught]
            ELSE existingPokemon.variants[v]])]

\* the merge with a plausible fault: the imported variants replace the
\* resident ones
replaceVariants(existingPokemon, importedPokemon) ==
    [existingPokemon EXCEPT !.variants = importedPokemon.variants]

\* existingPokemon.variants.map(...): a variant whose type the imported
\* entry lists takes the caught value of the first imported variant of it
mergeVariants(existingPokemon, importedPokemon) ==
    [existingPokemon EXCEPT !.variants =
        Array([v \in 1..Len(existingPokemon.variants) |->
            IF HasVariant(importedPokemon, existingPokemon.variants[v].type)
            THEN [existingPokemon.variants[v] EXCEPT !.caught =
                    importedPokemon.variants[
                        FindVariant(importedPokemon, existingPokemon.variants[v].type)].caught]
            ELSE existingPokemon.variants[v]])]

\* one pass of the merging forEach; p is the position of the entity with
\* the imported id, 0 if there is none
mergeEntry(pl, importedPokemon, p) ==
    IF p = 0 THEN pl ELSE [pl EXCEPT ![p] = mergeVariants(pl[p], importedPokemon)]

\* pokemonList.find(pokemon => pokemon.id === id): its position, 0 if none
FindPokemon(pl, id) == IndexOf([i \in 1..Len(pl) |-> pl[i].id], id, 1) + 1

RECURSIVE mergeImported(_, _, _)
\* the merging forEach from entry k on; it ends at the first entry that
\* throws, with the entries before it merged
mergeImported(pl, payload, k) ==
    IF k > Len(payload) \/ mergeThrows(payload[k], FindPokemon(pl, payload[k].id)) THEN pl
    ELSE mergeImported(mergeEntry(pl, payload[k], FindPokemon(pl, payload[k].id)), payload, k + 1)

\* the payloads a user pastes: one entry, two entries of which one names no
\* resident entity, one that the validation rejects, and one whose second
\* entry has a null among its variants
ImportPayloads ==
    {<<[id |-> 1, variants |-> <<Var("Normal", TRUE)>>]>>,
     <<[id |-> 2, variants |-> <<Var("Shiny", TRUE), Var("Normal", TRUE)>>],
       [id |-> 9, variants |-> <<Var("Normal", TRUE)>>]>>,
     <<[id |-> 1, variants |-> <<Var("Normal", FALSE)>>], [id |-> 0, variants |-> <<>>]>>,
     <<[id |-> 1, variants |-> <<Var("Normal", TRUE)>>], [id |-> 2, variants |-> <<NullVariant>>]>>}

\* importPokedexData past the merge: saveProgress, then filterPokemon inside
\* the try block; when the merge threw, the catch block is next
importMerged(merged, mergeThrew, af, sc, ui) ==
    IF mergeThrew THEN [list |-> merged, saved |-> FALSE, ui |-> [ui EXCEPT !.threw = TRUE]]
    ELSE [list |-> merged, saved |-> TRUE, ui |-> filterPokemon(merged, af, sc, ui)]

\* importPokedexData() with the parsed payload
importPokedexData(pl, payload, af, sc, ui) ==
    IF \E k \in 1..Len(payload) : InvalidEntry(payload[k])
    THEN [list |-> pl, saved |-> FALSE, ui |-> [ui EXCEPT !.threw = TRUE]]
    ELSE importMerged(mergeImported(pl, payload, 1),
                      \E k \in 1..Len(payload) :
                          mergeThrows(payload[k], FindPokemon(pl, payload[k].id)),
                      af, sc, ui)

\* the textarea is emptied when the handler starts and gets the message
\* in its catch block
CommitImport(done) ==
    /\ pokemonList' = done.list
    /\ storage' = IF done.saved THEN done.list ELSE storage
    /\ textarea' = IF done.ui.threw THEN ErrorText ELSE EmptyText
    /\ Commit(done.ui)

\* ------------------------------------------------------------- JSON text
\* A text is a sequence of characters.  The characters of the strings that
\* occur in an export:
Spell(word) ==
    CASE word = "id" -> <<"i", "d">>
      [] word = "variants" -> <<"v", "a", "r", "i", "a", "n", "t", "s">>
      [] word = "type" -> <<"t", "y", "p", "e">>
      [] word = "caught" -> <<"c", "a", "u", "g", "h", "t">>
      [] word = "true" -> <<"t", "r", "u", "e">>
      [] word = "false" -> <<"f", "a", "l", "s", "e">>
      [] word = "Normal" -> <<"N", "o", "r", "m", "a", "l">>
      [] word = "Dark" -> <<"D", "a", "r", "k">>
      [] word = "Mystic" -> <<"M", "y", "s", "t", "i", "c">>
      [] word = "Metallic" -> <<"M", "e", "t", "a", "l", "l", "i", "c">>
      [] word = "Shadow" -> <<"S", "h", "a", "d", "o", "w">>
      [] word = "Shiny" -> <<"S", "h", "i", "n", "y">>

\* the variant type with these characters ("?" when no entity has such a type)
Unspell(chars) ==
    IF \E v \in 1..Len(variantOrder) : Spell(variantOrder[v]) = chars
    THEN variantOrder[CHOOSE v \in 1..Len(variantOrder) : Spell(variantOrder[v]) = chars]
    ELSE "?"

Quoted(chars) == <<"\"">> \o chars \o <<"\"">>

RECURSIVE DigitsOf(_)
DigitsOf(n) == IF n < 10 THEN <<Digits[n + 1]>> ELSE Append(DigitsOf(n \div 10), Digits[(n % 10) + 1])

RECURSIVE JoinFrom(_, _)
\* the texts from the i-th on, separated by commas
JoinFrom(texts, i) ==
    IF i > Len(texts) THEN <<>>
    ELSE IF i = Len(texts) THEN texts[i]
    ELSE texts[i] \o <<",">> \o JoinFrom(texts, i + 1)

stringifyArray(texts) == <<"[">> \o JoinFrom(texts, 1) \o <<"]">>

stringifyVariant(variant) ==
    <<"{">> \o Quoted(Spell("type")) \o <<":">> \o Quoted(Spell(variant.type)) \o <<",">>
            \o Quoted(Spell("caught")) \o <<":">>
            \o Spell(IF variant.caught THEN "true" ELSE "false") \o <<"}">>

stringifyEntry(entry) ==
    <<"{">> \o Quoted(Spell("id")) \o <<":">> \o DigitsOf(entry.id) \o <<",">>
            \o Quoted(Spell("variants")) \o <<":">>
            \o stringifyArray(Array([v \in 1..Len(entry.variants) |->
                                        stringifyVariant(entry.variants[v])])) \o <<"}">>

\* JSON.stringify of a sequence of {id, variants} entries
JSONstringify(list) ==
    stringifyArray(Array([k \in 1..Len(list) |-> stringifyEntry(list[k])]))

RECURSIVE StripRange(_, _, _)
\* the characters of text[lo..hi] that are not whitespace
StripRange(text, lo, hi) ==
    IF lo > hi THEN <<>>
    ELSE IF lo = hi THEN (IF text[lo] = " " THEN <<>> ELSE <<text[lo]>>)
    ELSE StripRange(text, lo, (lo + hi) \div 2) \o StripRange(text, (lo + hi) \div 2 + 1, hi)

\* text.replace(/\s+/g, '')
StripWhitespace(text) == StripRange(text, 1, Len(text))

\* the text has lit at position pos
Has(text, pos, lit) ==
    pos + Len(lit) - 1 <= Len(text) /\ SubSeq(text, pos, pos + Len(lit) - 1) = lit

RECURSIVE ClosingQuote(_, _)
\* position of the first double quote from pos on, 0 if there is none
ClosingQuote(text, pos) ==
    IF pos > Len(text) THEN 0
    ELSE IF text[pos] = "\"" THEN pos ELSE ClosingQuote(text, pos + 1)

RECURSIVE DigitsEnd(_, _)
\* position behind the digits that start at pos
DigitsEnd(text, pos) ==
    IF pos > Len(text) \/ ~IsDigit(text[pos]) THEN pos ELSE DigitsEnd(text, pos + 1)

\* a parse that throws a SyntaxError
Failed == [ok |-> FALSE, pos |-> 0, value |-> <<>>]

\* {"type":"...","caught":true|false} at pos
parseVariant(text, pos) ==
    LET head == <<"{">> \o Quoted(Spell("type")) \o <<":", "\"">>
        q == ClosingQuote(text, pos + Len(head))
        mid == <<"\"", ",">> \o Quoted(Spell("caught")) \o <<":">>
        type == Unspell(SubSeq(text, pos + Len(head), q - 1))
    IN IF ~Has(text, pos, head) \/ q = 0 \/ ~Has(text, q, mid) THEN Failed
       ELSE IF Has(text, q + Len(mid), Spell("true") \o <<"}">>)
            THEN [ok |-> TRUE, pos |-> q + Len(mid) + 5, value |-> Var(type, TRUE)]
       ELSE IF Has(text, q + Len(mid), Spell("false") \o <<"}">>)
            THEN [ok |-> TRUE, pos |-> q + Len(mid) + 6, value |-> Var(type, FALSE)]
       ELSE Failed

\* what follows an element of an array: a comma, or the closing bracket
AfterElement(text, pos) ==
    IF Has(text, pos, <<",">>) THEN "more" ELSE IF Has(text, pos, <<"]">>) THEN "end" ELSE "bad"

RECURSIVE parseVariants(_, _, _)
\* the variants of an array whose elements start at pos
parseVariants(text, pos, acc) ==
    IF acc = <<>> /\ Has(text, pos, <<"]">>) THEN [ok |-> TRUE, pos |-> pos + 1, value |-> acc]
    ELSE LET variant == parseVariant(text, pos)
         IN IF ~variant.ok \/ AfterElement(text, variant.pos) = "bad" THEN Failed
            ELSE IF AfterElement(text, variant.pos) = "end"
                 THEN [ok |-> TRUE, pos |-> variant.pos + 1, value |-> Append(acc, variant.value)]
            ELSE parseVariants(text, variant.pos + 1, Append(acc, variant.value))

\* {"id":<digits>,"variants":[...]} at pos
parseEntry(text, pos) ==
    LET head == <<"{">> \o Quoted(Spell("id")) \o <<":">>
        d == DigitsEnd(text, pos + Len(head))
        mid == <<",">> \o Quoted(Spell("variants")) \o <<":", "[">>
        variants == parseVariants(text, d + Len(mid), <<>>)
    IN IF ~Has(text, pos, head) \/ d = pos + Len(head) \/ ~Has(text, d, mid) THEN Failed
       ELSE IF ~variants.ok \/ ~Has(text, variants.pos, <<"}">>) THEN Failed
       ELSE [ok |-> TRUE, pos |-> variants.pos + 1,
             value |-> [id |-> DigitRun(text, pos + Len(head), 0), variants |-> variants.value]]

RECURSIVE parseEntries(_, _, _)
parseEntries(text, pos, acc) ==
    IF acc = <<>> /\ Has(text, pos, <<"]">>) THEN [ok |-> TRUE, pos |-> pos + 1, value |-> acc]
    ELSE LET entry == parseEntry(text, pos)
         IN IF ~entry.ok \/ AfterElement(text, entry.pos) = "bad" THEN Failed
            ELSE IF AfterElement(text, entry.pos) = "end"
                 THEN [ok |-> TRUE, pos |-> entry.pos + 1, value |-> Append(acc, entry.value)]
            ELSE parseEntries(text, entry.pos + 1, Append(acc, entry.value))

\* a text that cannot be decoded or parsed makes the handler leave through
\* its catch block before the validation; so does this payload
Unparsable == <<[id |-> 0, variants |-> MissingVariants]>>

\* JSON.parse of a text that JSON.stringify made of {id, variants} entries
JSONparse(text) ==
    LET entries == parseEntries(text, 2, <<>>)
    IN IF Has(text, 1, <<"[">>) /\ entries.ok /\ entries.pos = Len(text) + 1
       THEN entries.value ELSE Unparsable

\* btoa(String.fromCharCode(...pako.gzip(text))): the base64 text of the
\* compressed data; atob, pako.ungzip and TextDecoder give the text back
Base64Gzip(text) == [kind |-> "base64", data |-> text]

\* importPokedexData up to JSON.parse: atob or pako.ungzip throw on a value
\* that is not the base64 text of gzip data
decodedPayload(value) == IF value.kind = "base64" THEN JSONparse(value.data) ELSE Unparsable

\* ------------------------------------------------------ exportPokedexData
\* caughtPokemonList with a plausible fault: every entity is exported with
\* all its variants
wholePokemonList(pl) ==
    Array([k \in 1..Len(pl) |-> [id |-> pl[k].id, variants |-> pl[k].variants]])

\* caughtPokemonList: the entities with a caught variant, each with its id
\* and its caught variants
caughtPokemonList(pl) ==
    LET withCaught == FilterBy(pl, [i \in 1..Len(pl) |->
                          \E v \in 1..Len(pl[i].variants) : pl[i].variants[v].caught])
    IN Array([k \in 1..Len(withCaught) |->
          [id |-> withCaught[k].id,
           variants |-> FilterBy(withCaught[k].variants,
                            [v \in 1..Len(withCaught[k].variants) |->
                                withCaught[k].variants[v].caught])]])

\* the value exportPokedexData() leaves in the textarea
exportPokedexData(pl) == Base64Gzip(StripWhitespace(JSONstringify(caughtPokemonList(pl))))

\* the "Export" button
ExportPokedexData ==
    /\ textarea' = exportPokedexData(pokemonList)
    /\ Commit(UI)
    /\ UNCHANGED <<filterElement, debounceTimer, changes, handled>>
    /\ UNCHANGED <<pokemonList, activeFilters, showCaught, storage, edits, locationOptions, loads>>

\* the "Import" button, on a pasted payload or on what the textarea holds
ImportPokedexData ==
    /\ edits < MaxEdits
    /\ \E payload \in ImportPayloads \cup {decodedPayload(textarea)} :
        CommitImport(importPokedexData(pokemonList, payload, activeFilters, showCaught, UI))
    /\ edits' = edits + 1
    /\ UNCHANGED <<filterElement, debounceTimer, changes, handled>>
    /\ UNCHANGED <<activeFilters, showCaught, locationOptions, loads>>

\* the "Hide/Show Caught" button
ToggleCaughtVisibility ==
    /\ showCaught' = ~showCaught
    /\ Commit(filterPokemon(pokemonList, activeFilters, ~showCaught,
                [UI EXCEPT !.pokedex = applyCaughtVisibilityRules(pokedex, ~showCaught)]))
    /\ UNCHANGED <<filterElement, debounceTimer, changes, handled>>
    /\ UNCHANGED <<pokemonList, activeFilters, storage, edits, locationOptions, textarea, loads>>

\* recommendedRoute past the filter writes: the new filters and the page
routeApplied(af1, pl, sc, ui) ==
    [af |-> af1, ui |-> filterPokemon(pl, af1, sc, ui), wrote |-> TRUE]

\* matchingRoutes[0].types throws when no area matches
routeChosen(matching, pl, af, sc, ui) ==
    IF Len(matching) = 0 THEN [af |-> af, ui |-> [ui EXCEPT !.threw = TRUE], wrote |-> FALSE]
    ELSE routeApplied(recommendedFilters(matching[1], af), pl, sc, ui)

routeSorted(sortedAreas, pl, af, sc, ui0) ==
    routeChosen(matchingRoutes(sortedAreas, af), pl, af, sc, [ui0 EXCEPT !.areasArray = sortedAreas])

\* recommendedRoute() on the page state ui0
recommendedRoute(pl, af, sc, ui0) == routeSorted(sortAreas(ui0.areasArray), pl, af, sc, ui0)

\* routeDropdowns with a plausible fault: the time dropdown is not updated
routeDropdownsButTime(controls, done) ==
    IF done.wrote
    THEN [controls EXCEPT !.type = done.af.type, !.location = done.af.location]
    ELSE controls

\* the type, time and location dropdowns take the filters written
routeDropdowns(controls, done) ==
    IF done.wrote
    THEN [controls EXCEPT !.type = done.af.type, !.time = done.af.time,
                          !.location = done.af.location]
    ELSE controls

CommitRoute(done) ==
    /\ activeFilters' = done.af
    /\ filterElement' = routeDropdowns(filterElement, done)
    /\ Commit(done.ui)

\* the "Recommended Route" button
RecommendedRoute ==
    /\ CommitRoute(recommendedRoute(pokemonList, activeFilters, showCaught, UI))
    /\ UNCHANGED <<debounceTimer, changes, handled>>
    /\ UNCHANGED <<pokemonList, showCaught, storage, edits, locationOptions, textarea, loads>>

\* ------------------------------------------- clearProgress and loadPokemon
\* localStorage without a "pokedex" item
Removed == <<NullMon>>

\* pokemon_list.json: the catalogue with nothing caught
fetchedCatalogue(pl) ==
    Array([i \in 1..Len(pl) |->
        [pl[i] EXCEPT !.variants =
            Array([v \in 1..Len(pl[i].variants) |-> [pl[i].variants[v] EXCEPT !.caught = FALSE]])]])

\* pokedex.innerHTML = `<p>Error loading ...</p>`
ErrorPage == <<[type |-> "Error", rows |-> <<>>, hidden |-> FALSE]>>

\* cap on the loadPokemon calls that wait for the network at a time
MaxLoads == 1

\* the load at position k has ended
Without(s, k) == SubSeq(s, 1, k - 1) \o SubSeq(s, k + 1, Len(s))

\* the "Clear Progress" button, confirmed: the item is removed and
\* loadPokemon() runs up to its await fetch(...)
ClearProgress ==
    /\ Len(loads) < MaxLoads
    /\ storage' = Removed
    /\ loads' = Append(loads, "fetch")
    /\ Commit(UI)
    /\ UNCHANGED <<filterElement, debounceTimer, changes, handled>>
    /\ UNCHANGED <<pokemonList, activeFilters, showCaught, edits, locationOptions, textarea>>

\* the response arrives: loadPokemon() runs up to its await response.json()
LoadFetched ==
    \E k \in 1..Len(loads) :
        /\ loads[k] = "fetch"
        /\ loads' = [loads EXCEPT ![k] = "json"]
        /\ Commit(UI)
        /\ UNCHANGED <<filterElement, debounceTimer, changes, handled>>
        /\ UNCHANGED <<pokemonList, activeFilters, showCaught, storage, edits, locationOptions,
                       textarea>>

\* the request fails or the response is not ok: the catch block
LoadFailed ==
    \E k \in 1..Len(loads) :
        /\ loads[k] = "fetch"
        /\ loads' = Without(loads, k)
        /\ Commit([UI EXCEPT !.pokedex = ErrorPage, !.threw = TRUE])
        /\ UNCHANGED <<filterElement, debounceTimer, changes, handled>>
        /\ UNCHANGED <<pokemonList, activeFilters, showCaught, storage, edits, locationOptions,
                       textarea>>

\* the end of loadPokemon() on the page state ui: filterPokemon() when a
\* filter is set, and the catch block when it throws
loadPokemonEnd(pl, af, sc, ui) ==
    IF af.location = NoPlace /\ Falsy(af.time) /\ Falsy(af.type) /\ Falsy(af.variant) THEN ui
    ELSE LET shown == filterPokemon(pl, af, sc, ui)
         IN IF shown.threw THEN [shown EXCEPT !.pokedex = ErrorPage] ELSE shown

\* the catalogue arrives: it becomes resident and is saved
LoadParsed ==
    \E k \in 1..Len(loads) :
        /\ loads[k] = "json"
        /\ loads' = Without(loads, k)
        /\ pokemonList' = fetchedCatalogue(pokemonList)
        /\ storage' = fetchedCatalogue(pokemonList)
        /\ Commit(loadPokemonEnd(fetchedCatalogue(pokemonList), activeFilters, showCaught, UI))
        /\ UNCHANGED <<filterElement, debounceTimer, changes, handled>>
        /\ UNCHANGED <<activeFilters, showCaught, edits, locationOptions, textarea>>

\* the handlers of the loaded page that read and write the caught flags and
\* the filters
Next ==
    \/ LocationChange
    \/ TimeChange
    \/ TypeChange
    \/ VariantChange
    \/ ToggleCaught
    \/ ToggleCaughtVisibility
    \/ RecommendedRoute
    \/ ImportPokedexData

\* every catalogue, and the runs of each catalogue on its own
Spec == Init /\ [][Next]_vars
SpecLines == InitLines /\ [][Next]_vars
SpecVariants == InitVariants /\ [][Next]_vars
SpecAreas == InitAreas /\ [][Next]_vars
SpecRare == InitRare /\ [][Next]_vars

\* ----------------------------------------------- the caught flags' handlers
\* a catalogue with a partly caught entity
CatProgress ==
    <<Mon(1, "Common", <<>>, <<Loc(Route1, "Land", "Day")>>,
          <<Var("Normal", TRUE), Var("Dark", FALSE)>>),
      Mon(2, "Rare", <<1>>, <<>>, <<Var("Normal", FALSE)>>)>>

\* the catalogue pl with the caught flags f[i][v]
SetCaught(pl, f) ==
    Array([i \in 1..Len(pl) |->
        [pl[i] EXCEPT !.variants =
            Array([v \in 1..Len(pl[i].variants) |-> [pl[i].variants[v] EXCEPT !.caught = f[i][v]]])]])

\* a base form with six evolutions, one of them with a variant type the base
\* form does not have
CatEvolutions ==
    <<Mon(1, "Common", <<>>, <<Loc(Route1, "Land", "Day")>>, <<Var("Normal", FALSE)>>),
      Mon(2, "Common", <<1>>, <<>>, <<Var("Normal", FALSE)>>),
      Mon(3, "Common", <<1>>, <<>>, <<Var("Normal", TRUE), Var("Shiny", FALSE)>>),
      Mon(4, "Common", <<1>>, <<>>, <<Var("Normal", FALSE)>>),
      Mon(5, "Rare", <<1>>, <<>>, <<Var("Normal", FALSE)>>),
      Mon(6, "Rare", <<1>>, <<>>, <<Var("Normal", FALSE)>>),
      Mon(7, "Rare", <<1>>, <<>>, <<Var("Normal", FALSE)>>)>>

InitEvolutions == InitWith(CatEvolutions)
SpecEvolutions == InitEvolutions /\ [][Next]_vars

\* an evolution declared Legendary that shares both areas of its Common
\* base form, one of them with a Rare entity
CatRarities ==
    <<Mon(1, "Common", <<>>, <<Loc(Route1, "Land", "Day"), Loc(Route1, "Water", "Day")>>,
          <<Var("Normal", FALSE)>>),
      Mon(2, "Rare", <<>>, <<Loc(Route1, "Land", "Day")>>, <<Var("Normal", FALSE)>>),
      Mon(3, "Legendary", <<1>>, <<Loc(Route1, "Land", "Day"), Loc(Route1, "Water", "Day")>>,
          <<Var("Normal", FALSE)>>)>>

InitRarities == InitWith(CatRarities)
SpecRarities == InitRarities /\ [][Next]_vars

\* every caught state of the catalogue pl (of entities with at most 2 variants)
CaughtStates(pl) == {SetCaught(pl, f) : f \in [1..Len(pl) -> [1..2 -> BOOLEAN]]}

InitProgress == \E catalogue \in CaughtStates(CatProgress) : InitWith(catalogue)

\* the handlers that read or write the caught flags, the snapshot and the
\* textarea, with the variant filter and the show/hide button that decide
\* which cards are on the page
NextProgress ==
    \/ VariantChange
    \/ ToggleCaught
    \/ ToggleCaughtVisibility
    \/ ImportPokedexData
    \/ ExportPokedexData
    \/ ClearProgress
    \/ LoadFetched
    \/ LoadFailed
    \/ LoadParsed

SpecProgress == InitProgress /\ [][NextProgress]_vars

\* ------------------------------------------------- the page while it loads
\* loadPokemon() of window.onload has resolved with this catalogue and its
\* then-callback has not run yet
BeforeOnLoad(catalogue) ==
    /\ pokemonList = catalogue
    /\ activeFilters = NoFilters
    /\ showCaught = TRUE
    /\ caughtPokemon = 0
    /\ totalPokemon = 0
    /\ areasArray = <<>>
    /\ storage = pokemonList
    /\ pokedex = <<>>
    /\ routeProbability = FALSE
    /\ routeCompletion = FALSE
    /\ threw = FALSE
    /\ areaCalled = FALSE
    /\ areaRan = FALSE
    /\ areaList = <<>>
    /\ areaResult = undefined
    /\ edits = 0
    /\ locationOptions = <<>>
    /\ textarea = EmptyText
    /\ loads = <<"then">>
    /\ filterElement = activeFilters
    /\ debounceTimer = <<>>
    /\ changes = 0
    /\ handled = NoRun

\* the then-callback of window.onload
OnLoad ==
    /\ loads = <<"then">>
    /\ loads' = <<>>
    /\ locationOptions' = populateLocationFilter(pokemonList)
    /\ areasArray' = allProbabilities(generateAreasArray(pokemonList), pokemonList, activeFilters)
    /\ UNCHANGED <<filterElement, debounceTimer, changes, handled>>
    /\ UNCHANGED <<pokemonList, activeFilters, showCaught, caughtPokemon, totalPokemon, storage,
                   pokedex, routeProbability, routeCompletion, threw, areaCalled, areaRan,
                   areaList, areaResult, edits, textarea>>

\* ------------------------------------------------- the debounced handlers
\* the filter controls, each with the timer of its own debounce closure
FilterTypes == {"location", "time", "type", "variant"}

\* the options of a control
OptionsOf(pl, filterType) ==
    CASE filterType = "location" -> PlacesOf(pl) \cup {NoPlace}
      [] filterType = "time" -> TimeOptions
      [] filterType = "type" -> TypeOptions
      [] filterType = "variant" -> VariantOptions

\* cap on the number of change events left to their timers in a run
MaxChanges == 3

\* clearTimeout(debounceTimer) of one control: its pending timer is dropped
clearTimeout(timers, filterType) ==
    SelectSeq(timers, LAMBDA timer : timer.filterType # filterType)

\* the number of change events the pending timer of the control stands for
PendingEvents(timers, filterType) ==
    LET own == SelectSeq(timers, LAMBDA timer : timer.filterType = filterType)
    IN IF own = <<>> THEN 0 ELSE own[1].events

\* setTimeout(..., 300): all timers have the same delay, so the new timer is
\* due after every pending one
setTimeout(timers, filterType, events) ==
    Append(timers, [filterType |-> filterType, events |-> events])

\* the debounced function with a plausible fault: the pending timer of the
\* control is not cleared
debounceKeepingTimer(timers, filterType) ==
    setTimeout(timers, filterType, PendingEvents(timers, filterType) + 1)

\* the function debounce() returns, called for a change event
debounce(timers, filterType) ==
    setTimeout(clearTimeout(timers, filterType), filterType,
               PendingEvents(timers, filterType) + 1)

\* a change event on a control: the user has selected another option
ChangeEvent(filterType, value) ==
    /\ changes < MaxChanges
    /\ value # filterElement[filterType]
    /\ filterElement' = [filterElement EXCEPT ![filterType] = value]
    /\ debounceTimer' = debounce(debounceTimer, filterType)
    /\ changes' = changes + 1
    /\ UNCHANGED <<pokemonList, activeFilters, showCaught, caughtPokemon, totalPokemon,
                   areasArray, storage, pokedex, routeProbability, routeCompletion, threw,
                   areaCalled, areaRan, areaList, areaResult, edits, locationOptions, textarea,
                   loads, handled>>

LocationEvent == \E v \in OptionsOf(pokemonList, "location") : ChangeEvent("location", v)
TimeEvent == \E v \in OptionsOf(pokemonList, "time") : ChangeEvent("time", v)
TypeEvent == \E v \in OptionsOf(pokemonList, "type") : ChangeEvent("type", v)
VariantEvent == \E v \in OptionsOf(pokemonList, "variant") : ChangeEvent("variant", v)

\* the timer that is due first fires: the handler of its control writes the
\* control's value into activeFilters and calls filterPokemon()
TimerFires ==
    /\ debounceTimer # <<>>
    /\ LET timer == Head(debounceTimer)
           af == [activeFilters EXCEPT ![timer.filterType] = filterElement[timer.filterType]]
       IN /\ activeFilters' = af
          /\ Commit(filterPokemon(pokemonList, af, showCaught, UI))
          /\ handled' = HandlerRun(timer.events, af, filterElement)
    /\ debounceTimer' = Tail(debounceTimer)
    /\ UNCHANGED <<pokemonList, showCaught, storage, edits, locationOptions, textarea, loads,
                   filterElement, changes>>

CatDebounce ==
    <<Mon(1, "Common", <<>>, <<Loc(Route1, "Land", "Day"), Loc(Route3, "Water", "Night")>>,
          <<Var("Normal", FALSE), Var("Shiny", TRUE)>>),
      Mon(2, "Rare", <<1>>, <<Loc(Route1, "Land", "Night")>>, <<Var("Normal", FALSE)>>)>>

InitDebounce == InitWith(CatDebounce)
NextDebounce ==
    \/ LocationEvent
    \/ TimeEvent
    \/ TypeEvent
    \/ VariantEvent
    \/ TimerFires
    \/ RecommendedRoute
SpecDebounce == InitDebounce /\ [][NextDebounce]_vars

\* the timer that is due first is taken off the pending timers; of the steps
\* of NextDebounce only TimerFires does that
DueTimerRuns == debounceTimer # <<>> /\ debounceTimer' = Tail(debounceTimer)

\* the event loop runs the callback of a timer once it is due
SpecDebounceFair == SpecDebounce /\ WF_debounceTimer(DueTimerRuns)

\* the state when loadPokemon() has resolved with the filters af in force
BeforeOnLoadWith(catalogue, af) ==
    /\ pokemonList = catalogue
    /\ activeFilters = af
    /\ showCaught = TRUE
    /\ caughtPokemon = 0
    /\ totalPokemon = 0
    /\ areasArray = <<>>
    /\ storage = pokemonList
    /\ pokedex = <<>>
    /\ routeProbability = FALSE
    /\ routeCompletion = FALSE
    /\ threw = FALSE
    /\ areaCalled = FALSE
    /\ areaRan = FALSE
    /\ areaList = <<>>
    /\ areaResult = undefined
    /\ edits = 0
    /\ locationOptions = <<>>
    /\ textarea = EmptyText
    /\ loads = <<"then">>
    /\ filterElement = activeFilters
    /\ debounceTimer = <<>>
    /\ changes = 0
    /\ handled = NoRun

\* catalogues over every short list of location records of an evolution and
\* of a Rare entity, beside a Common base form, nothing or everything caught
RecordPool == {Loc(Route1, "Land", "Day"), Loc(Route1, "Land", "Night"), Loc(Route3, "Land", "Day")}
MaxRecords == 2
RecordLists == UNION {[1..n -> RecordPool] : n \in 0..MaxRecords}

RecordCatalogue(evolved, rare, caught) ==
    <<Mon(1, "Common", <<>>, <<Loc(Route1, "Land", "Day"), Loc(Route1, "Water", "Day")>>,
          <<Var("Normal", caught)>>),
      Mon(2, "Common", <<1>>, evolved, <<Var("Normal", caught)>>),
      Mon(3, "Rare", <<>>, rare, <<Var("Normal", caught)>>)>>

\* the filters a change handler can have set when the then-callback runs:
\* the listeners are added when the script is evaluated, before the load
LoadFilters ==
    {[NoFilters EXCEPT !.location = place, !.time = time] :
        place \in {NoPlace, Route3}, time \in {"", "Night"}}

InitIndex ==
    \E evolved \in RecordLists : \E rare \in RecordLists : \E af \in LoadFilters :
        \E caught \in BOOLEAN : BeforeOnLoadWith(RecordCatalogue(evolved, rare, caught), af)
NextIndex == OnLoad \/ RecommendedRoute
SpecIndex == InitIndex /\ [][NextIndex]_vars

\* catalogues over every short list of distinct place names
PlacePool == {Route3, Route12, LowerRoute7, PalletTown, SafariZone, SSAnne}
MaxPlaces == 3
PlaceLists ==
    {names \in UNION {[1..n -> PlacePool] : n \in 1..MaxPlaces} :
        \A i, j \in 1..Len(names) : i # j => names[i] # names[j]}

\* one entity per place
CatalogueOf(names) ==
    Array([k \in 1..Len(names) |->
        Mon(k, "Common", <<>>, <<Loc(names[k], "Land", "Day")>>, <<Var("Normal", FALSE)>>)])

InitPlaces == \E names \in PlaceLists : BeforeOnLoad(CatalogueOf(names))
NextPlaces == OnLoad \/ RecommendedRoute
SpecPlaces == InitPlaces /\ [][NextPlaces]_vars

\* ============================================================== properties
\* the entity of the catalogue with this id
EntityOf(id) == pokemonList[IndexOf([i \in 1..Len(pokemonList) |-> pokemonList[i].id], id, 1) + 1]

\* position of the entity with this id in the catalogue
PositionOf(id) == IndexOf([i \in 1..Len(pokemonList) |-> pokemonList[i].id], id, 1) + 1

\* the list filterPokemon builds before the variant filter, and after it
Candidates == getDisplayList(getFilteredLines(pokemonList, activeFilters), pokemonList)
ShownCandidates == variantFilteredList(Candidates, activeFilters)

\* some card of the page is of the entity with this id
OnPage(id) ==
    \E g \in 1..Len(pokedex) : \E rc \in GroupCards(pokedex[g]) :
        pokedex[g].rows[rc[1]][rc[2]].id = id

\* one location record meets the three constraints of the filters
RecordMeets(record, af) ==
    /\ af.location = NoPlace \/ record.place = af.location
    /\ Falsy(af.time) \/ record.time = af.time
    /\ Falsy(af.type) \/ record.type = af.type

\* ---------------------------------------------------------------------- C1
\* C1: for every entity of the catalogue and every filter state reached,
\* tripleFilter(entity) is true iff at least one single location record of
\* the entity meets all three of: location filter empty or equal to the
\* record's place, time filter empty or equal to its time, type filter empty
\* or equal to its type.  So an entity without records never matches, and one
\* whose constraints are met only by different records does not match.
C1_TripleFilterOneRecord ==
    \A i \in 1..Len(pokemonList) :
        tripleFilter(pokemonList[i], activeFilters)
            <=> \E j \in 1..Len(pokemonList[i].locations) :
                    RecordMeets(pokemonList[i].locations[j], activeFilters)

\* C1 (witness): all three filters are set, a base form has a record for each
\* constraint but none for all three, it does not match and is not on the
\* page; an entity without records does not match either.
C1_MetOnlyByDifferentRecords ==
    /\ activeFilters.location # NoPlace /\ ~Falsy(activeFilters.time) /\ ~Falsy(activeFilters.type)
    /\ ~threw
    /\ \E i \in 1..Len(pokemonList) :
        /\ Len(pokemonList[i].previousForms) = 0
        /\ \E j \in 1..Len(pokemonList[i].locations) :
              pokemonList[i].locations[j].place = activeFilters.location
        /\ \E j \in 1..Len(pokemonList[i].locations) :
              pokemonList[i].locations[j].time = activeFilters.time
        /\ \E j \in 1..Len(pokemonList[i].locations) :
              pokemonList[i].locations[j].type = activeFilters.type
        /\ ~tripleFilter(pokemonList[i], activeFilters)
        /\ ~OnPage(pokemonList[i].id)
    /\ \E i \in 1..Len(pokemonList) :
        Len(pokemonList[i].locations) = 0 /\ ~tripleFilter(pokemonList[i], activeFilters)

\* ---------------------------------------------------------------------- C2
RECURSIVE ExpectedCandidates(_, _, _)
\* for each base form from the i-th on that has a record meeting the filters:
\* the base form, then every entity whose previousForms holds its id
ExpectedCandidates(pl, af, i) ==
    IF i > Len(pl) THEN <<>>
    ELSE (IF /\ Len(pl[i].previousForms) = 0
             /\ \E j \in 1..Len(pl[i].locations) : RecordMeets(pl[i].locations[j], af)
          THEN <<pl[i]>> \o SelectSeq(pl, LAMBDA e :
                                \E k \in 1..Len(e.previousForms) : e.previousForms[k] = pl[i].id)
          ELSE <<>>)
         \o ExpectedCandidates(pl, af, i + 1)

\* C2: for the catalogue and every filter state reached, the candidate list
\* getDisplayList(getFilteredLines()) holds, for each base form that matches
\* the filters, in catalogue order, the base form followed by every entity
\* whose previousForms contains its id, whether or not that evolution's own
\* records match; an evolution none of whose base forms matches is not in
\* the list, even when it matches itself.
C2_CandidateList ==
    /\ Candidates = ExpectedCandidates(pokemonList, activeFilters, 1)
    /\ \A k \in 1..Len(Candidates) :
        Len(Candidates[k].previousForms) > 0 =>
            \E i \in 1..Len(pokemonList) :
                /\ Len(pokemonList[i].previousForms) = 0
                /\ Includes(Candidates[k].previousForms, pokemonList[i].id)
                /\ \E j \in 1..Len(pokemonList[i].locations) :
                      RecordMeets(pokemonList[i].locations[j], activeFilters)

\* C2 (witness): a location filter is set; one evolution that has no record
\* meeting it is a candidate and on the page behind its base form, and with
\* another filter an evolution that matches is absent because its base form
\* does not match.  The first of the two is the state described here.
C2_EvolutionRidesAlong ==
    /\ activeFilters.location # NoPlace
    /\ ~threw
    /\ \E k \in 2..Len(Candidates) :
        /\ Len(Candidates[k].previousForms) > 0
        /\ Len(Candidates[k].locations) > 0
        /\ ~tripleFilter(Candidates[k], activeFilters)
        /\ OnPage(Candidates[k].id)

\* ---------------------------------------------------------------------- C3
\* the variant types whose group the three conditions let through
ExpectedGroupTypes(list, af, sc) ==
    {variantOrder[v] : v \in {w \in 1..Len(variantOrder) :
        /\ \E i \in 1..Len(list) : HasVariant(list[i], variantOrder[w])
        /\ ~(~sc /\ \A i \in 1..Len(list) :
                      HasVariant(list[i], variantOrder[w]) =>
                          list[i].variants[FindVariant(list[i], variantOrder[w])].caught)
        /\ af.variant = "" \/ af.variant = variantOrder[w]}}

AnyFilterSet ==
    ~(activeFilters.location = NoPlace /\ Falsy(activeFilters.time)
      /\ Falsy(activeFilters.type) /\ Falsy(activeFilters.variant))

\* C3: whenever a filter is set, the page holds a group for variant type T
\* iff at least one candidate has a variant of type T, it is not the case
\* that showCaught is false and every candidate having T has it caught, and
\* filters.variant is empty or equals T.
C3_GroupEmittedIff ==
    AnyFilterSet =>
        {pokedex[g].type : g \in 1..Len(pokedex)}
            = ExpectedGroupTypes(ShownCandidates, activeFilters, showCaught)

\* ---------------------------------------------------------------------- C4
\* C4: after any sequence of filter changes, card clicks, imports, route
\* recommendations and show/hide-caught switches, the variant groups of the
\* page are in the relative order Normal, Dark, Mystic, Metallic, Shadow,
\* Shiny, and each variant type appears at most once.
C4_GroupOrder ==
    /\ \A g \in 1..Len(pokedex) : Includes(variantOrder, pokedex[g].type)
    /\ \A g, h \in 1..Len(pokedex) :
        g < h => IndexOf(variantOrder, pokedex[g].type, 1) < IndexOf(variantOrder, pokedex[h].type, 1)

\* C4 (witness): after an edit of the caught flags and with caught cards
\* hidden, the page shows two groups or more.
C4_SeveralGroups ==
    /\ edits > 0
    /\ ~showCaught
    /\ Len(pokedex) >= 2

\* ---------------------------------------------------------------------- C5
\* rank of the rarity of the entity with this id
RarityOfId(id) == RarityIndex(EntityOf(id).rarity)

\* the ids of the cards of a group, read row by row and cell by cell
ReadingOrder(group) ==
    Flatten([r \in 1..Len(group.rows) |->
        SelectSeq([c \in 1..Len(group.rows[r]) |-> group.rows[r][c].id], LAMBDA id : id # 0)])

\* a sequence of ids is in rarity order, equal rarities in catalogue order
\* (which is the order of the candidate list for the entities of one line
\* and for the base forms)
InRarityOrder(ids) ==
    \A a, b \in 1..Len(ids) :
        a < b =>
            \/ RarityOfId(ids[a]) < RarityOfId(ids[b])
            \/ RarityOfId(ids[a]) = RarityOfId(ids[b]) /\ PositionOf(ids[a]) < PositionOf(ids[b])

\* C5 (as stated): within every group of the page the entities, read row by
\* row and cell by cell, are in rarity order Common, Rare, Legendary, Ultra
\* Beast, entities of equal rarity in the order of the candidate list.
C5_ReadingOrderByRarity ==
    \A g \in 1..Len(pokedex) : InRarityOrder(ReadingOrder(pokedex[g]))

\* C5 (amended): within every group of the page the rows are in rarity order
\* of their base forms (the first cell), base forms of equal rarity in the
\* order of the candidate list; and within every row the evolutions that
\* follow the base form are in rarity order among themselves, equal
\* rarities in the order of the candidate list.  The rarity of an evolution
\* is not compared with the entities of other rows.
C5_RowsAndCellsByRarity ==
    \A g \in 1..Len(pokedex) :
        /\ InRarityOrder([r \in 1..Len(pokedex[g].rows) |-> pokedex[g].rows[r][1].id])
        /\ \A r \in 1..Len(pokedex[g].rows) :
            /\ Len(EntityOf(pokedex[g].rows[r][1].id).previousForms) = 0
            /\ InRarityOrder(Tail(ReadingOrder([rows |-> <<pokedex[g].rows[r]>>])))

\* C5 (witness): a group of the page has two rows or more, and a row with
\* two evolutions; read row by row, an entity of higher rarity comes before
\* one of lower rarity.
C5_EvolutionAheadOfLowerRarity ==
    \E g \in 1..Len(pokedex) :
        /\ Len(pokedex[g].rows) >= 2
        /\ \E r \in 1..Len(pokedex[g].rows) : Len(ReadingOrder([rows |-> <<pokedex[g].rows[r]>>])) >= 3
        /\ \E a, b \in 1..Len(ReadingOrder(pokedex[g])) :
            /\ a < b
            /\ RarityOfId(ReadingOrder(pokedex[g])[a]) > RarityOfId(ReadingOrder(pokedex[g])[b])

\* ---------------------------------------------------------------------- C6
\* C6: every card of the group for variant type T shows, and toggles, the
\* variant of type T of its entity: the card carries type T and the caught
\* flag of the entity's variant of that type.
C6_CardShowsVariantOfGroupType ==
    \A g \in 1..Len(pokedex) : \A rc \in GroupCards(pokedex[g]) :
        /\ pokedex[g].rows[rc[1]][rc[2]].type = pokedex[g].type
        /\ HasVariant(EntityOf(pokedex[g].rows[rc[1]][rc[2]].id), pokedex[g].type)

\* C6 (the failing case reached): the group of one type holds a card that
\* shows the variant of another type.
C6_CardOfAnotherType ==
    \E g \in 1..Len(pokedex) : \E rc \in GroupCards(pokedex[g]) :
        pokedex[g].rows[rc[1]][rc[2]].type # pokedex[g].type

\* ---------------------------------------------------------------------- C7
AllCaught(list) ==
    \A i \in 1..Len(list) : \A j \in 1..Len(list[i].variants) : list[i].variants[j].caught

\* C7: whenever a handler calls areaProbability and every variant of every
\* entity it passes to calculateProbability is caught, calculateProbability
\* returns undefined, areaProbability runs to its end without an error, and
\* the route-probability display is hidden.
C7_AllCaughtIsAbsent ==
    (areaCalled /\ AllCaught(areaList)) =>
        /\ areaRan
        /\ areaResult = undefined
        /\ ~routeProbability

\* C7 (witness): areaProbability ran on a list that is not empty and has
\* every variant caught; the result is undefined and the display is hidden.
C7_RanOnFullyCaughtArea ==
    /\ areaRan
    /\ Len(areaList) > 0
    /\ AllCaught(areaList)
    /\ areaResult = undefined
    /\ ~routeProbability
    /\ routeCompletion

\* ---------------------------------------------------------------------- C8
RECURSIVE SumOver(_, _)
\* f[1] + ... + f[n]
SumOver(f, n) == IF n = 0 THEN 0 ELSE f[n] + SumOver(f, n - 1)

\* the probability of an entity as a rational: its numerator over 600000
\* (the entity counts of the catalogues divide 60)
ExactEntityProbability(pokemon, list, af) ==
    CASE encounterRarity(pokemon) = "Common" ->
            ((10000 - (IF totalRares(list, af) > 0 THEN 50 ELSE 0)
                    - (IF SomeRarity(list, "Legendary") THEN 10 ELSE 0)
                    - (IF SomeRarity(list, "Ultra Beast") THEN 1 ELSE 0)) * 60)
                \div (IF totalCommons(list) > 0 THEN totalCommons(list) ELSE 1)
      [] encounterRarity(pokemon) = "Rare" ->
            (50 * 60) \div (IF totalRares(list, af) > 0 THEN totalRares(list, af) ELSE 1)
      [] encounterRarity(pokemon) = "Legendary" -> 10 * 60
      [] encounterRarity(pokemon) = "Ultra Beast" -> 60

\* the modifier of a variant type as a rational: its numerator over 100
ExactModifier(pokemon, t) ==
    IF encounterRarity(pokemon) = "Common"
    THEN (CASE t = "Normal" -> 92 [] t \in {"Shiny", "Shadow"} -> 1 [] OTHER -> 2)
    ELSE (CASE t = "Normal" -> 60 [] t \in {"Shiny", "Shadow"} -> 5 [] OTHER -> 10)

\* S as a rational: its numerator over 60000000
ExactSum(list, af) ==
    SumOver([i \in 1..Len(list) |->
                ExactEntityProbability(list[i], list, af)
                * SumOver([j \in 1..Len(list[i].variants) |->
                              IF list[i].variants[j].caught THEN 0
                              ELSE ExactModifier(list[i], list[i].variants[j].type)],
                          Len(list[i].variants))],
            Len(list))

\* round(60000000 / n), a half rounded up
ExactRound(n) == (2 * 60000000 + n) \div (2 * n)

\* 60000000 / n lies exactly half-way between two integers
HalfWay(n) == (2 * 60000000) % n = 0 /\ ((2 * 60000000) \div n) % 2 = 1

\* C8 (as stated): whenever areaProbability ran with an uncaught pool that is
\* not empty, the result is round(1 / S) with S the sum over the uncaught
\* (entity, variant) pairs of entity probability times variant modifier, in
\* exact decimal arithmetic.
C8_RoundedExactInverse ==
    (areaRan /\ areaResult # undefined) =>
        areaResult = ExactRound(ExactSum(areaList, activeFilters))

\* C8 (amended): the result is Math.round of 1 / S computed in binary64
\* floating point.  It equals round(1 / S) of exact arithmetic whenever the
\* exact 1 / S is not half-way between two integers; at a half-way value it
\* is one of the two neighbouring integers.  For an area whose only entity
\* is a base-form Common with a single uncaught Normal variant the result
\* is 1.
C8_RoundedInverseUpToTies ==
    /\ (areaRan /\ areaResult # undefined) =>
        IF HalfWay(ExactSum(areaList, activeFilters))
        THEN areaResult \in {ExactRound(ExactSum(areaList, activeFilters)) - 1,
                             ExactRound(ExactSum(areaList, activeFilters))}
        ELSE areaResult = ExactRound(ExactSum(areaList, activeFilters))
    /\ calculateProbability(
           <<Mon(1, "Common", <<>>, <<Loc(Route1, "Land", "Day")>>, <<Var("Normal", FALSE)>>)>>,
           activeFilters) = 1

\* C8 (witness): areaProbability ran on an area whose exact 1 / S is half-way
\* between two integers, and the result is the lower one, where exact
\* arithmetic rounds up.
C8_HalfWayRoundedDown ==
    /\ areaRan
    /\ areaResult # undefined
    /\ HalfWay(ExactSum(areaList, activeFilters))
    /\ areaResult = ExactRound(ExactSum(areaList, activeFilters)) - 1

\* ---------------------------------------------------------------------- C9
\* C9: each time areaProbability ran, totalSlots is 6 times the number of
\* entities of the sequence the probability was computed over, and
\* caughtCount is the number of caught variants of exactly those entities.
C9_CountersOverProbabilityList ==
    areaRan =>
        /\ totalPokemon = 6 * Len(areaList)
        /\ caughtPokemon = SumOver([i \in 1..Len(areaList) |->
                                Cardinality({j \in 1..Len(areaList[i].variants) :
                                                areaList[i].variants[j].caught})],
                                   Len(areaList))

\* C9 (the failing case reached): areaProbability ran and the counters cover
\* more entities than the probability was computed over.
C9_CountsEntityOutsideArea ==
    /\ areaRan
    /\ Len(areaList) > 0
    /\ totalPokemon > 6 * Len(areaList)

\* --------------------------------------------------------------------- C10
\* the numeric leaves of the Area Index as <<place position, type, time,
\* value>>, those of one time when a time is given
NumericLeaves(areas, time) ==
    {<<a, areas[a].types[t].key, areas[a].types[t].value[d].key, areas[a].types[t].value[d].value>> :
        <<a, t, d>> \in {x \in (1..Len(areas)) \X (1..2) \X (1..2) :
            /\ x[2] <= Len(areas[x[1]].types)
            /\ x[3] <= Len(areas[x[1]].types[x[2]].value)
            /\ areas[x[1]].types[x[2]].value[x[3]].value >= 0
            /\ time = "" \/ areas[x[1]].types[x[2]].value[x[3]].key = time}}

\* the leaves that hold the least value
LeastLeaves(leaves) == {l \in leaves : \A m \in leaves : l[4] <= m[4]}

\* what C10 asks of the filters af1 left by a recommendation that started
\* with the filters af0 and the Area Index areas (sorted)
PicksLeastLeaf(areas, af0, af1) ==
    NumericLeaves(areas, af0.time) # {} =>
        \E l \in LeastLeaves(NumericLeaves(areas, af0.time)) :
            /\ af1.location = areas[l[1]].name
            /\ af1.type = l[2]
            /\ af1.time = l[3]
            /\ \A m \in LeastLeaves(NumericLeaves(areas, af0.time)) : l[1] <= m[1]

\* C10: every run of recommendedRoute sets the filters to a (place, type,
\* time) whose stored probability is the least of all numeric leaves of the
\* Area Index (of the leaves of the selected time when a time is set), the
\* first such place in sorted place order.
C10_RecommendsLeastLeaf ==
    [][RecommendedRoute => PicksLeastLeaf(sortAreas(areasArray), activeFilters, activeFilters')]_vars

\* --------------------------------------------------------------------- C11
RECURSIVE AlphabeticalFrom(_, _, _)
\* a comes no later than b in the alphabet: letter by letter without regard
\* to case, a space ahead of every letter, a prefix ahead of its extensions
AlphabeticalFrom(a, b, i) ==
    IF i > Len(a) THEN TRUE
    ELSE IF i > Len(b) THEN FALSE
    ELSE IF ToLower(a[i]) = ToLower(b[i]) THEN AlphabeticalFrom(a, b, i + 1)
    ELSE CharCode(ToLower(a[i])) < CharCode(ToLower(b[i]))

\* the order C11 describes: routes by ascending number, then the other names
\* in alphabetical order
RoutesThenAlphabetical(names) ==
    \A i, j \in 1..Len(names) : i < j =>
        IF IsRouteName(names[i])
        THEN IsRouteName(names[j]) => RouteNumber(names[i]) <= RouteNumber(names[j])
        ELSE ~IsRouteName(names[j]) /\ AlphabeticalFrom(names[i], names[j], 1)

\* s is a permutation of t (sequences without repetition)
PermutationOf(s, t) ==
    /\ Len(s) = Len(t)
    /\ {s[i] : i \in 1..Len(s)} = {t[i] : i \in 1..Len(t)}

\* C11: once the page has loaded, the options sortLocations produced are a
\* permutation of the catalogue's places with the routes first in ascending
\* number and the other names after them in alphabetical order, and sorting
\* the Area Index with the comparator of recommendedRoute gives the places in
\* that same order.
C11_SortLocationsOrder ==
    loads = <<>> =>
        /\ PermutationOf(locationOptions, allLocations(pokemonList))
        /\ RoutesThenAlphabetical(locationOptions)
        /\ LET sortedAreas == sortAreas(areasArray)
           IN Array([a \in 1..Len(sortedAreas) |-> sortedAreas[a].name]) = locationOptions

\* C11 (the failing case reached): recommendedRoute has sorted the Area
\* Index and its places are not in the order of the location options, which
\* have "SS Anne" ahead of "Safari Zone".
C11_MixedCaseNames ==
    /\ loads = <<>>
    /\ areasArray = sortAreas(areasArray)
    /\ \E i, j \in 1..Len(locationOptions) :
          i < j /\ locationOptions[i] = SSAnne /\ locationOptions[j] = SafariZone
    /\ \E i, j \in 1..Len(areasArray) :
          i < j /\ areasArray[i].name = SafariZone /\ areasArray[j].name = SSAnne

\* --------------------------------------------------------------------- C12
\* the entity of pl has a caught variant
HasCaught(pokemon) == \E v \in 1..Len(pokemon.variants) : pokemon.variants[v].caught

\* what C12 asks of the payload exported from the catalogue pl
ExportedAsClaimed(pl, payload) ==
    /\ \A i \in 1..Len(pl) :
          Cardinality({k \in 1..Len(payload) : payload[k].id = pl[i].id}) =
              (IF HasCaught(pl[i]) THEN 1 ELSE 0)
    /\ \A k \in 1..Len(payload) :
          \E i \in 1..Len(pl) :
              /\ payload[k].id = pl[i].id
              /\ Len(payload[k].variants) =
                    Cardinality({v \in 1..Len(pl[i].variants) : pl[i].variants[v].caught})
              /\ {payload[k].variants[w] : w \in 1..Len(payload[k].variants)} =
                    {Var(pl[i].variants[v].type, TRUE) :
                        v \in {u \in 1..Len(pl[i].variants) : pl[i].variants[u].caught}}

\* C12: after every export the text in the textarea decodes to a payload
\* that has one entry for each entity with a caught variant and none for
\* the others, each entry with the entity's id and exactly its caught
\* variants (type, caught = true); the catalogue and the snapshot are
\* unchanged.
C12_ExportListsCaught ==
    [][ExportPokedexData =>
          /\ ExportedAsClaimed(pokemonList, decodedPayload(textarea'))
          /\ pokemonList' = pokemonList
          /\ storage' = storage]_vars

\* C12 (its case reached): the textarea holds the export of a catalogue in
\* which one entity is partly caught and another has nothing caught.
C12_ExportOfPartlyCaught ==
    /\ textarea = exportPokedexData(pokemonList)
    /\ Len(decodedPayload(textarea)) = 1
    /\ \E i \in 1..Len(pokemonList) :
          HasCaught(pokemonList[i]) /\ HasUncaught(pokemonList[i])
    /\ \E i \in 1..Len(pokemonList) : ~HasCaught(pokemonList[i])

\* --------------------------------------------------------------------- C13
\* what C13 asks of the catalogue after a successful import of payload
\* into the catalogue before
MergedAsClaimed(before, payload, after) ==
    /\ Len(after) = Len(before)
    /\ \A i \in 1..Len(before) :
          /\ after[i].id = before[i].id
          /\ after[i].rarity = before[i].rarity
          /\ after[i].previousForms = before[i].previousForms
          /\ after[i].locations = before[i].locations
          /\ Len(after[i].variants) = Len(before[i].variants)
          /\ \A v \in 1..Len(before[i].variants) :
                /\ after[i].variants[v].type = before[i].variants[v].type
                /\ LET listed == {kw \in (1..Len(payload)) \X (1..2) :
                                     /\ payload[kw[1]].id = before[i].id
                                     /\ kw[2] <= Len(payload[kw[1]].variants)
                                     /\ payload[kw[1]].variants[kw[2]].type =
                                            before[i].variants[v].type}
                   IN IF listed = {}
                      THEN after[i].variants[v].caught = before[i].variants[v].caught
                      ELSE \E kw \in listed :
                              after[i].variants[v].caught = payload[kw[1]].variants[kw[2]].caught

\* the payloads the import handler can be given in this state
PayloadsHere == ImportPayloads \cup {decodedPayload(textarea)}

\* C13: in every state, an import that is not rejected leaves each variant
\* the payload lists for its entity with the payload's caught value and
\* every other variant as it was; entries with an id that is not resident
\* change nothing, and no entity or variant is added, removed or reordered.
C13_ImportMergesByIdAndType ==
    \A payload \in PayloadsHere :
        LET done == importPokedexData(pokemonList, payload, activeFilters, showCaught, UI)
        IN done.saved => MergedAsClaimed(pokemonList, payload, done.list)

\* C13 (its case reached): an import has merged a payload that lists a
\* variant type its entity does not have and an id that is not resident; one
\* variant is caught by it, and the Dark variant of entity 1 is as it was.
C13_ImportedWithForeignEntries ==
    /\ edits = 1
    /\ textarea = EmptyText
    /\ storage = pokemonList
    /\ pokemonList = SetCaught(CatProgress, <<<<FALSE, TRUE>>, <<TRUE, TRUE>>>>)
    /\ \E payload \in ImportPayloads :
          /\ \E k \in 1..Len(payload) : FindPokemon(pokemonList, payload[k].id) = 0
          /\ \E k \in 1..Len(payload) :
                /\ FindPokemon(pokemonList, payload[k].id) # 0
                /\ \E w \in 1..Len(payload[k].variants) :
                      ~HasVariant(EntityOf(payload[k].id), payload[k].variants[w].type)
          /\ importPokedexData(pokemonList, payload, activeFilters, showCaught, UI).list = pokemonList

\* --------------------------------------------------------------------- C14
\* C14: every import that ends in the catch block (the textarea holds the
\* error message) leaves the catalogue and the snapshot as they were.
C14_RejectedImportChangesNothing ==
    [][ImportPokedexData /\ textarea' = ErrorText =>
          pokemonList' = pokemonList /\ storage' = storage]_vars

\* C14 (the failing case reached): the textarea holds the error message of
\* a rejected import and the catalogue has a caught flag that the snapshot
\* does not have.
C14_RejectedAfterPartialMerge ==
    /\ textarea = ErrorText
    /\ storage # Removed
    /\ Len(storage) = Len(pokemonList)
    /\ \E i \in 1..Len(pokemonList) : \E v \in 1..Len(pokemonList[i].variants) :
          pokemonList[i].variants[v].caught /\ ~storage[i].variants[v].caught

\* --------------------------------------------------------------------- C15
\* C15: for every caught state C of the catalogue, importing the export of
\* C into the freshly loaded catalogue (nothing caught) is not rejected and
\* yields exactly C.
C15_ExportImportRoundTrip ==
    \A C \in CaughtStates(pokemonList) :
        LET done == importPokedexData(fetchedCatalogue(C), decodedPayload(exportPokedexData(C)),
                                      activeFilters, showCaught, UI)
        IN done.saved /\ done.list = C

\* C15 (its case reached): the textarea holds the export of a catalogue with
\* a partly caught entity, the catalogue has been loaded afresh since, and
\* importing the textarea gives back the exported catalogue.
C15_ExportThenFreshCatalogue ==
    /\ loads = <<>>
    /\ pokemonList = fetchedCatalogue(pokemonList)
    /\ storage = pokemonList
    /\ \E C \in CaughtStates(pokemonList) :
          /\ textarea = exportPokedexData(C)
          /\ \E i \in 1..Len(C) : HasCaught(C[i]) /\ HasUncaught(C[i])
          /\ importPokedexData(pokemonList, decodedPayload(textarea),
                               activeFilters, showCaught, UI).list = C

\* --------------------------------------------------------------------- C16
\* the ids toggleCaught can be called with: the resident ones and one that
\* no entity has
ToggleIds == {pokemonList[i].id : i \in 1..Len(pokemonList)} \cup {99}

ToggleTypes == {variantOrder[v] : v \in 1..Len(variantOrder)}

\* what saveProgress leaves in the snapshot when toggleCaught turns the
\* catalogue before into the catalogue after
SavedBy(before, after, snapshot) == IF after # before THEN after ELSE snapshot

\* the catalogue, the snapshot and the page after toggleCaught(id, t) in the
\* state <<pl, snapshot, ui>>
Toggled(pl, snapshot, ui, id, t) ==
    [list |-> flipCaught(pl, id, t),
     saved |-> SavedBy(pl, flipCaught(pl, id, t), snapshot),
     ui |-> toggleCaught(pl, id, t, activeFilters, showCaught, ui)]

\* the same after two calls in a row
ToggledTwice(id, t) ==
    LET once == Toggled(pokemonList, storage, UI, id, t)
    IN Toggled(once.list, once.saved, once.ui, id, t)

\* the variants of pl whose caught flag differs in the list after
FlagsChanged(pl, after) ==
    {iv \in (1..Len(pl)) \X (1..6) :
        /\ iv[2] <= Len(pl[iv[1]].variants)
        /\ after[iv[1]].variants[iv[2]].caught # pl[iv[1]].variants[iv[2]].caught}

\* the page filterPokemon computes in this state
Recomputed == filterPokemon(pokemonList, activeFilters, showCaught, UI)

\* the page shows the projection of this state: recomputing it succeeds and
\* changes nothing
ShowsProjection == ~Recomputed.threw /\ pokedex = Recomputed.pokedex

\* both parts of C16 about one call: a call on a variant that exists flips
\* that flag and no other, a call with an id or a type that does not exist
\* changes nothing
SingleToggle(id, t) ==
    LET once == Toggled(pokemonList, storage, UI, id, t)
    IN IF FindPokemon(pokemonList, id) # 0 /\ HasVariant(EntityOf(id), t)
       THEN /\ Len(once.list) = Len(pokemonList)
            /\ FlagsChanged(pokemonList, once.list) =
                  {<<FindPokemon(pokemonList, id), FindVariant(EntityOf(id), t)>>}
            /\ once.saved = once.list
       ELSE once.list = pokemonList /\ once.saved = storage /\ once.ui.pokedex = pokedex

\* C16 as stated: in every state, two calls of toggleCaught(id, type) in a
\* row restore the catalogue, the snapshot and the page, one call flips only
\* that variant's flag, and a call with an absent id or type changes nothing.
C16_DoubleToggleRestoresAll ==
    \A id \in ToggleIds : \A t \in ToggleTypes :
        /\ ToggledTwice(id, t).list = pokemonList
        /\ ToggledTwice(id, t).saved = storage
        /\ ToggledTwice(id, t).ui.pokedex = pokedex
        /\ SingleToggle(id, t)

\* C16 amended: two calls in a row always restore the catalogue; they
\* restore the snapshot when it equalled the catalogue before the first
\* call, and the page when it showed the projection of the state before the
\* first call; one call flips only that variant's flag and saves the
\* catalogue, and a call with an absent id or type changes nothing.
C16_DoubleToggleRestores ==
    \A id \in ToggleIds : \A t \in ToggleTypes :
        /\ ToggledTwice(id, t).list = pokemonList
        /\ storage = pokemonList => ToggledTwice(id, t).saved = storage
        /\ ShowsProjection => ToggledTwice(id, t).ui.pokedex = pokedex
        /\ SingleToggle(id, t)

\* C16 (its case reached): caught cards are hidden, the snapshot equals the
\* catalogue, the page shows the projection of the state, and one call of
\* toggleCaught on a card of the page changes the page.
C16_ToggleChangesThePage ==
    /\ ~showCaught
    /\ storage = pokemonList
    /\ ShowsProjection
    /\ \E card \in ClickableCards :
          LET once == Toggled(pokemonList, storage, UI, card[1], card[2])
          IN /\ once.ui.pokedex # pokedex
             /\ once.list # pokemonList
             /\ ~once.ui.threw

\* --------------------------------------------------------------------- C17
\* the catalogues the writes of the handlers produce from this state: the
\* flip of toggleCaught, the merge of the import, the load of the file
CatalogueWrites ==
    {flipCaught(pokemonList, card[1], card[2]) : card \in ClickableCards}
        \cup {mergeImported(pokemonList, payload, 1) : payload \in PayloadsHere}
        \cup {fetchedCatalogue(pokemonList)}

\* the filter fields with a new value in this step
FieldsChanged == {f \in DOMAIN activeFilters : activeFilters'[f] # activeFilters[f]}

\* C17: no recomputation changes the catalogue or the filters. In every
\* step the catalogue is either as before or exactly what the handler's own
\* write made of it (same entities, same order, no other flag), and the
\* filters are as before except for the one field a change handler sets or
\* the location, time and type the recommended route sets.
C17_RecomputationKeepsCatalogue ==
    [][/\ pokemonList' = pokemonList \/ pokemonList' \in CatalogueWrites
       /\ \/ Cardinality(FieldsChanged) <= 1
          \/ FieldsChanged \subseteq {"location", "time", "type"} /\ activeFilters'.location # NoPlace
       /\ pokedex' # pokedex /\ edits' = edits /\ loads' = loads =>
             pokemonList' = pokemonList]_vars

\* C17 (its case reached): all three filters are set, so filterPokemon,
\* displayPokemon, getEvolutionRows, areaProbability and calculateProbability
\* have run on a catalogue with caught and uncaught variants, after a toggle.
C17_RecomputedWithProbability ==
    /\ edits = 1
    /\ areaRan
    /\ ~threw
    /\ pokedex # <<>>
    /\ \E i \in 1..Len(pokemonList) : HasCaught(pokemonList[i]) /\ HasUncaught(pokemonList[i])

\* --------------------------------------------------------------------- C18
\* C18: every toggleCaught on a card is one step in which one flag is
\* flipped, the snapshot is written and the page is recomputed: right after
\* it the snapshot equals the catalogue and the page is the projection of
\* the new catalogue, and no pending reload has moved on, whatever events
\* and reload completions come before and after it.
C18_ToggleIsAtomic ==
    [][ToggleCaught =>
          /\ Cardinality(FlagsChanged(pokemonList, pokemonList')) = 1
          /\ storage' = pokemonList'
          /\ loads' = loads
          /\ \E card \in ClickableCards :
                /\ pokemonList' = flipCaught(pokemonList, card[1], card[2])
                /\ LET shown == filterPokemon(flipCaught(pokemonList, card[1], card[2]),
                                              activeFilters, showCaught, UI)
                   IN ~shown.threw => pokedex' = shown.pokedex]_vars

\* C18 (its case reached): clear-progress has removed the snapshot and its
\* reload is still waiting for the network when a toggle has written the
\* snapshot again.
C18_ToggleWhileReloadPending ==
    /\ loads # <<>>
    /\ edits = 1
    /\ textarea = EmptyText
    /\ storage = pokemonList
    /\ pokedex # <<>>
    /\ ShowsProjection

\* --------------------------------------------------------------------- C19
\* the ids of the descendants of the base form in the list, in list order
DescendantIds(list, baseId) ==
    LET evoChain == FilterBy(list, [i \in 1..Len(list) |-> Includes(list[i].previousForms, baseId)])
    IN [k \in 1..Len(evoChain) |-> evoChain[k].id]

\* the ids an evolution line of six slots has: the base form, its first five
\* descendants, 0 in the slots that are absent
SixSlots(list, baseId) ==
    [c \in 1..6 |->
        IF c = 1 THEN baseId
        ELSE IF c - 1 <= Len(DescendantIds(list, baseId)) THEN DescendantIds(list, baseId)[c - 1]
        ELSE 0]

\* C19: on a page that shows the projection of the state, every row of every
\* group has exactly 6 slots, the base form in the first, then its first 5
\* descendants in the order of the list the group is built from, and absent
\* slots after them.
C19_LineHasSixSlots ==
    ShowsProjection =>
        \A g \in 1..Len(pokedex) : \A r \in 1..Len(pokedex[g].rows) :
            LET row == pokedex[g].rows[r]
            IN /\ Len(row) = 6
               /\ row[1].id # 0
               /\ EntityOf(row[1].id).previousForms = <<>>
               /\ [c \in 1..Len(row) |-> row[c].id] =
                     SixSlots(variantGroupPokemons(ShownCandidates, pokedex[g].type), row[1].id)

\* C19 (the failing case reached): the page shows a row with a base form and
\* six evolutions.
C19_RowOfSevenCards ==
    /\ ShowsProjection
    /\ \E g \in 1..Len(pokedex) : \E r \in 1..Len(pokedex[g].rows) :
          /\ Len(pokedex[g].rows[r]) = 7
          /\ \A c \in 1..7 : pokedex[g].rows[r][c].id # 0

\* --------------------------------------------------------------------- C20
\* the ids of the entities shown in the rows of a group
ShownIds(group) == {group.rows[rc[1]][rc[2]].id : rc \in GroupCards(group)}

\* the ids of the entities a list holds
IdsOf(list) == {list[i].id : i \in 1..Len(list)}

\* C20: on a page that shows the projection of the state, every candidate
\* with a variant of a group's type is in a row of that group, and the
\* entities the all-caught test of the group ranges over are exactly the
\* ones shown in it.
C20_GroupShowsItsCandidates ==
    ShowsProjection =>
        \A g \in 1..Len(pokedex) :
            /\ \A i \in 1..Len(ShownCandidates) :
                  HasVariant(ShownCandidates[i], pokedex[g].type) =>
                      ShownCandidates[i].id \in ShownIds(pokedex[g])
            /\ IdsOf(variantGroupPokemons(ShownCandidates, pokedex[g].type)) = ShownIds(pokedex[g])

\* C20 (the failing case reached): a group is on the page whose type an
\* evolution among the candidates has and its base form has not, and the
\* evolution is in no row of the group.
C20_EvolutionWithoutItsBase ==
    /\ ShowsProjection
    /\ \E g \in 1..Len(pokedex) : \E i \in 1..Len(ShownCandidates) :
          /\ HasVariant(ShownCandidates[i], pokedex[g].type)
          /\ ShownCandidates[i].previousForms # <<>>
          /\ ~HasVariant(EntityOf(ShownCandidates[i].previousForms[1]), pokedex[g].type)
          /\ ShownCandidates[i].id \notin ShownIds(pokedex[g])

\* --------------------------------------------------------------------- C21
\* the leaves of the Area Index of the catalogue: <<place, type, time>>
LeavesOf(areas) ==
    UNION {UNION {{<<areas[a].name, areas[a].types[t].key, areas[a].types[t].value[d].key>> :
                      d \in 1..Len(areas[a].types[t].value)} :
                  t \in 1..Len(areas[a].types)} :
           a \in 1..Len(areas)}

\* the calls of calculateProbability behind this state, as <<list, filters
\* in force>>: one per leaf in the pass after the load, with no filter set,
\* and the one of areaProbability when it has run
EngineCalls ==
    {<<areaEntities(pokemonList, leaf[1], leaf[2], leaf[3]), NoFilters>> :
        leaf \in LeavesOf(generateAreasArray(pokemonList))}
    \cup (IF areaRan THEN {<<areaList, activeFilters>>} ELSE {})

\* Rare-classified as the claims define it
RareClassified(pokemon) ==
    \/ pokemon.rarity = "Rare"
    \/ pokemon.rarity = "Common" /\ pokemon.previousForms # <<>>

\* the Common mass C21 describes
ClaimedCommonMass(list) ==
    SubtractEach(One, <<"Rare", "Legendary", "Ultra Beast">>,
                 <<\E i \in 1..Len(list) : RareClassified(list[i]),
                   \E i \in 1..Len(list) : list[i].rarity = "Legendary",
                   \E i \in 1..Len(list) : list[i].rarity = "Ultra Beast">>, 1)

\* C21: in every call of calculateProbability the Common mass is 1, minus
\* 0.005 iff the list has a Rare-classified entity (declared Rare, or
\* declared Common with previous forms), minus 0.001 iff it has a Legendary,
\* minus 0.0001 iff it has an Ultra Beast.
C21_CommonMass ==
    \A call \in EngineCalls : commonProb(call[1], call[2]) = ClaimedCommonMass(call[1])

\* C21 (the failing case reached): areaProbability has run on a list whose
\* only entity with previous forms is a Legendary, with no Rare in it.
C21_LegendaryEvolutionOnly ==
    /\ areaRan
    /\ \E i \in 1..Len(areaList) :
          areaList[i].rarity = "Legendary" /\ areaList[i].previousForms # <<>>
    /\ \A i \in 1..Len(areaList) : ~RareClassified(areaList[i])
    /\ \E i \in 1..Len(areaList) : areaList[i].rarity = "Common" /\ HasUncaught(areaList[i])

\* --------------------------------------------------------------------- C22
\* the number of entities of the list that satisfy the test
CountOf(list, Test(_)) == Cardinality({i \in 1..Len(list) : Test(list[i])})

BaseCommon(pokemon) == pokemon.rarity = "Common" /\ pokemon.previousForms = <<>>

\* the probability C22 describes for an entity of the list, given the
\* Common mass
ClaimedProbability(pokemon, list, mass) ==
    IF RareClassified(pokemon)
    THEN FDiv(RareProbability, FromInt(CountOf(list, RareClassified)))
    ELSE IF BaseCommon(pokemon)
    THEN FDiv(mass, FromInt(CountOf(list, BaseCommon)))
    ELSE rarityProbabilities(pokemon.rarity, mass)

\* C22: in every call of calculateProbability, the probability of a
\* Rare-classified entity is 0.005 over the number of Rare-classified
\* entities of the list, that of a base-form Common entity is the Common
\* mass over the number of base-form Common entities, caught ones counted,
\* and a Legendary or Ultra Beast is counted in neither and not divided.
C22_ProbabilityPerEntity ==
    \A call \in EngineCalls :
        \A i \in 1..Len(call[1]) :
            HasUncaught(call[1][i]) =>
                pokemonProbability(call[1][i], commonProb(call[1], call[2]),
                                   totalCommons(call[1]), totalRares(call[1], call[2]))
                    = ClaimedProbability(call[1][i], call[1], commonProb(call[1], call[2]))

\* C22 (the failing case reached): areaProbability has run on a list with an
\* uncaught Rare entity and a Legendary that has previous forms.
C22_RareBesideLegendaryEvolution ==
    /\ areaRan
    /\ \E i \in 1..Len(areaList) : areaList[i].rarity = "Rare" /\ HasUncaught(areaList[i])
    /\ \E i \in 1..Len(areaList) :
          areaList[i].rarity = "Legendary" /\ areaList[i].previousForms # <<>>

\* --------------------------------------------------------------------- C23
\* the location records of the catalogue, as <<place, type, time>>
RecordsOf(pl) ==
    UNION {{<<pl[i].locations[j].place, pl[i].locations[j].type, pl[i].locations[j].time>> :
               j \in 1..Len(pl[i].locations)} : i \in 1..Len(pl)}

\* the keys of the object are pairwise different
DistinctKeys(obj) == \A i, j \in 1..Len(obj) : i # j => obj[i].key # obj[j].key

\* the number of leaf slots of an Area Index
LeafSlots(areas) ==
    Cardinality({atd \in (1..Len(areas)) \X (1..2) \X (1..2) :
        /\ atd[2] <= Len(areas[atd[1]].types)
        /\ atd[3] <= Len(areas[atd[1]].types[atd[2]].value)})

\* the value stored in a leaf
LeafValue(areas, leaf) ==
    GetNum(GetObj(areas[FindArea(areas, leaf[1])].types, leaf[2]), leaf[3])

\* C23: generateAreasArray returns one entry per distinct place of the
\* catalogue, with a leaf for (type, time) iff some entity has a record with
\* that place, type and time; no leaf is there twice and every leaf is 0.
\* The pass after it keeps these leaves.
C23_OneLeafPerRecord ==
    LET areas == generateAreasArray(pokemonList)
    IN /\ \A a, b \in 1..Len(areas) : a # b => areas[a].name # areas[b].name
       /\ {areas[a].name : a \in 1..Len(areas)} = {r[1] : r \in RecordsOf(pokemonList)}
       /\ \A a \in 1..Len(areas) :
             /\ DistinctKeys(areas[a].types)
             /\ \A t \in 1..Len(areas[a].types) : DistinctKeys(areas[a].types[t].value)
       /\ LeavesOf(areas) = RecordsOf(pokemonList)
       /\ LeafSlots(areas) = Cardinality(RecordsOf(pokemonList))
       /\ \A leaf \in LeavesOf(areas) : LeafValue(areas, leaf) = 0
       /\ loads = <<>> => LeavesOf(areasArray) = RecordsOf(pokemonList)

\* C23 (its case reached): the Area Index has been built from a catalogue in
\* which two entities share a record, one entity lists a record twice, and a
\* place has two types and a type two times.
C23_DuplicateRecords ==
    /\ loads = <<>>
    /\ areasArray # <<>>
    /\ \E i, j \in 1..Len(pokemonList) :
          i # j /\ \E k \in 1..Len(pokemonList[j].locations) :
                      \E m \in 1..Len(pokemonList[i].locations) :
                          pokemonList[j].locations[k] = pokemonList[i].locations[m]
    /\ \E i \in 1..Len(pokemonList) :
          /\ Len(pokemonList[i].locations) = 2
          /\ pokemonList[i].locations[1] = pokemonList[i].locations[2]
    /\ \E a \in 1..Len(areasArray) :
          /\ Len(areasArray[a].types) = 2
          /\ \E t \in 1..2 : Len(areasArray[a].types[t].value) = 2

\* --------------------------------------------------------------------- C24
\* the entities with a location record equal to the triple
EntitiesAt(pl, leaf) ==
    FilterBy(pl, [i \in 1..Len(pl) |->
        \E j \in 1..Len(pl[i].locations) :
            pl[i].locations[j] = Loc(leaf[1], leaf[2], leaf[3])])

TimersOf(filterType) == SelectSeq(debounceTimer, LAMBDA timer : timer.filterType = filterType)

\* a step in which a debounced handler runs
HandlerRuns == Len(debounceTimer') < Len(debounceTimer)

\* a step in which the control receives a change event
ChangeEventOn(filterType) ==
    changes' = changes + 1 /\ filterElement'[filterType] # filterElement[filterType]

\* the handler of the control whose timer is due first runs: it writes the
\* value the control has now into the filters, recomputes the page with
\* them, answers every change event since its last run and leaves no timer
\* of the control behind
RunsForDueTimer ==
    LET timer == Head(debounceTimer)
        af == [activeFilters EXCEPT ![timer.filterType] = filterElement[timer.filterType]]
        shown == filterPokemon(pokemonList, af, showCaught, UI)
    IN /\ activeFilters' = af
       /\ filterElement' = filterElement
       /\ pokedex' = shown.pokedex
       /\ routeProbability' = shown.routeProbability
       /\ threw' = shown.threw
       /\ handled'.events = timer.events
       /\ timer.events = PendingEvents(debounceTimer, timer.filterType)
       /\ \A k \in 1..Len(debounceTimer') : debounceTimer'[k].filterType # timer.filterType

\* a change event runs nothing: it leaves one timer of its control, due
\* after every other pending timer, that stands for one event more
RestartsTimer(filterType) ==
    /\ activeFilters' = activeFilters
    /\ pokedex' = pokedex
    /\ handled' = handled
    /\ debounceTimer'[Len(debounceTimer')] =
          [filterType |-> filterType, events |-> PendingEvents(debounceTimer, filterType) + 1]
    /\ \A other \in FilterTypes \ {filterType} :
          SelectSeq(debounceTimer', LAMBDA timer : timer.filterType = other) = TimersOf(other)

\* C25: a control never has more than one pending timer; a change event only
\* restarts the timer of its control; a handler runs only for the timer due
\* first, writes the value its control has at that moment into activeFilters
\* and then recomputes; and every pending timer leads to a run, so k change
\* events on a control without a run between them cause exactly one run,
\* after the last of them.
C25_OneRunAfterLastEvent ==
    /\ [](\A filterType \in FilterTypes : Len(TimersOf(filterType)) <= 1)
    /\ [][/\ HandlerRuns => RunsForDueTimer
          /\ \A filterType \in FilterTypes : ChangeEventOn(filterType) => RestartsTimer(filterType)]_vars
    /\ \A filterType \in FilterTypes :
          (TimersOf(filterType) # <<>>) ~> (TimersOf(filterType) = <<>>)

\* C25 (its case reached): the last handler run answered two or more change
\* events of its control, and another control's timer is still pending.
C25_RunAfterSeveralEvents ==
    /\ handled.events >= 2
    /\ debounceTimer # <<>>
    /\ changes = MaxChanges

\* --------------------------------------------------------------------- C26
\* the controls whose change events have all been answered by their handler
Settled == {filterType \in FilterTypes : TimersOf(filterType) = <<>>}

AreaCandidates == FilterBy(Candidates, [i \in 1..Len(Candidates) |-> tripleFilter(Candidates[i], activeFilters)])

\* C27: while the route probability is displayed, location, time and type
\* are set, there are candidates, and a candidate that matches the area has
\* an uncaught variant.
C27_ProbabilityShownForArea ==
    routeProbability =>
        /\ activeFilters.location # NoPlace
        /\ activeFilters.time # ""
        /\ activeFilters.type # ""
        /\ Candidates # <<>>
        /\ \E i \in 1..Len(AreaCandidates) : HasUncaught(AreaCandidates[i])

\* C27 (the failing case reached): the route probability is displayed for
\* the area of the filters and every candidate of that area is caught.
C27_ShownForCaughtArea ==
    /\ routeProbability
    /\ activeFilters.location # NoPlace /\ activeFilters.time # "" /\ activeFilters.type # ""
    /\ AreaCandidates # <<>>
    /\ \A i \in 1..Len(AreaCandidates) : ~HasUncaught(AreaCandidates[i])

\* --------------------------------------------------------------------- C28
\* the leaf of the area the filters name
ActiveLeaf == <<activeFilters.location, activeFilters.type, activeFilters.time>>

\* the Area Index a pass of allProbabilities over this catalogue computes
PassIndex == allProbabilities(generateAreasArray(pokemonList), pokemonList, activeFilters)

\* C28: the value areaProbability has written into the leaf of the active
\* area is the value allProbabilities computes for that leaf from this
\* catalogue, whatever the variant filter.
C28_ViewedLeafEqualsPass ==
    areaRan => LeafValue(areasArray, ActiveLeaf) = LeafValue(PassIndex, ActiveLeaf)

\* C28 (the failing case reached): areaProbability has run under a variant
\* filter that an uncaught entity of the active area does not have.
C28_ViewedUnderVariantFilter ==
    /\ areaRan
    /\ activeFilters.variant # ""
    /\ LeafValue(areasArray, ActiveLeaf) = areaResult
    /\ \E i \in 1..Len(EntitiesAt(pokemonList, ActiveLeaf)) :
          /\ HasUncaught(EntitiesAt(pokemonList, ActiveLeaf)[i])
          /\ ~HasVariant(EntitiesAt(pokemonList, ActiveLeaf)[i], activeFilters.variant)

\* --------------------------------------------------------------------- C29
\* recommendedRoute() called in this state
Recommended == recommendedRoute(pokemonList, activeFilters, showCaught, UI)

\* every leaf of the Area Index is absent (undefined)
AllLeavesAbsent == \A leaf \in LeavesOf(areasArray) : LeafValue(areasArray, leaf) = undefined

\* C29: once the Area Index is built, recommendedRoute runs to its end and
\* leaves location, type and time set to a leaf of the Area Index.
C29_RouteEndsOnLeaf ==
    loads = <<>> =>
        /\ ~Recommended.ui.threw
        /\ Recommended.wrote
        /\ <<Recommended.af.location, Recommended.af.type, Recommended.af.time>>
              \in LeavesOf(Recommended.ui.areasArray)

\* C29 (the failing case reached): the Area Index is built, every leaf is
\* absent because everything is caught, and the last handler threw.
C29_ThrewOnCaughtIndex ==
    /\ loads = <<>>
    /\ areasArray # <<>>
    /\ AllLeavesAbsent
    /\ threw

\* --------------------------------------------------------------------- C30
\* C30: whenever no loadPokemon call is waiting for its fetch or its
\* response, the item "pokedex" of localStorage is the resident catalogue.
C30_SnapshotIsCatalogue == loads = <<>> => storage = pokemonList

\* C30 (the failing case reached): the fetch of a clear-progress has failed;
\* the item is removed, the catalogue is still resident and the page shows
\* the load error.
C30_AfterFailedFetch ==
    /\ loads = <<>>
    /\ storage = Removed
    /\ pokedex = ErrorPage
    /\ pokemonList # <<>>

====
